---- MODULE Spec2Model ----
(***************************************************************************)
(* Model of the AgentXogs log-analysis skills: the metrics aggregator      *)
(* (.agents/skills/aggregate_logs), the anomaly detector                   *)
(* (.agents/skills/detect_anomalies) and the pipeline orchestrator         *)
(* (src/agentX/pipeline/pipeline.py).                                      *)
(*                                                                         *)
(* Numbers.  Python floats are modelled in exact fixed-point arithmetic:   *)
(*   error_rate (rounded to 4 decimals)   : integer count of 1/10000       *)
(*   percentage (rounded to 1 decimal)    : integer count of 1/10          *)
(*   unrounded ratios                     : records [num, den]             *)
(* round(x, k) is round-half-to-even on the exact quotient.                *)
(*                                                                         *)
(* JSON values are tagged records: Absent (key missing), Null, Str (an     *)
(* opaque string), Chars (a string kept as a sequence of characters, where *)
(* the code slices or parses it), Num, and wrong-typed values.             *)
(***************************************************************************)
EXTENDS Integers, Sequences, FiniteSets, TLC

VARIABLES
    inputDoc,       \* the aggregator's input document (stdin of aggregate_logs)
    baselineFile,   \* config/baseline_metrics.json as found on disk
    diskWritable,   \* whether output/<document> can be created and written
    metricsFile,    \* output/metrics.json
    aggOut,         \* outcome of the aggregator invocation
    metricsIn,      \* the metrics document given to the detector
    thresholdFile,  \* the threshold configuration file as found on disk
    anomaliesFile,  \* output/anomalies.json
    detOut,         \* outcome of the detector invocation
    pc,             \* the orchestrator's position in run_pipeline
    logs,           \* number of log entries the fetch skill returned
    hypotheses,     \* number of hypotheses the hypothesis skill returned
    invoked,        \* the skills run_skill has started, in order
    pipeline,       \* what run_pipeline returned or raised, and main's exit status
    procs,          \* the skill processes running side by side, each with its position
    insights        \* the livelogs_insights orchestrator: position, results, files

aggVars == <<inputDoc, baselineFile, metricsFile, aggOut>>
detVars == <<metricsIn, thresholdFile, anomaliesFile, detOut>>
pipeVars == <<pc, logs, hypotheses, invoked, pipeline>>
otherVars == <<procs, insights>>
vars == <<aggVars, detVars, pipeVars, diskWritable, otherVars>>

----------------------------------------------------------------------------
(* JSON values *)

Absent == [t |-> "absent"]
Null == [t |-> "null"]
Str(s) == [t |-> "str", s |-> s]
Chars(c) == [t |-> "chars", c |-> c]
Num(n) == [t |-> "num", n |-> n]
JList == [t |-> "list"]
Meta(lat) == [t |-> "map", latency_ms |-> lat]

\* dict.get(key, default): the default only replaces a missing key, a null stays
Get(j, default) == IF j.t = "absent" THEN default ELSE j

Min(a, b) == IF a <= b THEN a ELSE b

\* variant: the quotient cut off instead of rounded
RoundDown(num, den) == num \div den

\* round(num / den, k) scaled to an integer: round half to even (den > 0)
RoundHalfEven(num, den) ==
    LET q == num \div den
        r == num - q * den
    IN  IF 2 * r < den THEN q
        ELSE IF 2 * r > den THEN q + 1
        ELSE IF q % 2 = 0 THEN q ELSE q + 1

\* the elements of a sequence
Elements(seq) == {seq[i] : i \in 1..Len(seq)}

\* sorted(seq, key): Python's sort is stable; before[a, b] is the strict key order
\* (each element goes behind the elements it is not before, so ties keep their order)
StableSort(seq, before) ==
    LET sorted[k \in 0..Len(seq)] ==
            IF k = 0 THEN <<>>
            ELSE LET prev == sorted[k - 1]
                     p == Cardinality({j \in 1..(k - 1) : ~before[seq[k], prev[j]]})
                 IN  SubSeq(prev, 1, p) \o <<seq[k]>> \o SubSeq(prev, p + 1, k - 1)
    IN  sorted[Len(seq)]

\* the distinct elements of seq in order of first occurrence (dict insertion order)
FirstSeen(seq) ==
    LET seen[k \in 0..Len(seq)] ==
            IF k = 0 THEN <<>>
            ELSE LET prev == seen[k - 1]
                 IN  IF \E j \in 1..Len(prev) : prev[j] = seq[k] THEN prev
                     ELSE Append(prev, seq[k])
    IN  seen[Len(seq)]

\* a sequence given by a rule, as the tuple of its elements
Tuple(f) == SubSeq(f, 1, Len(f))

\* code points of the characters the model's strings are made of
Ord ==
    [c \in {"%", "+", "-", ".", "0", "1", "2", "3", "4", "5", "6", "7", "8", "9",
            ":", "T", "Z", "e", "x"} |->
        CASE c = "%" -> 37 [] c = "+" -> 43 [] c = "-" -> 45 [] c = "." -> 46
          [] c = "0" -> 48 [] c = "1" -> 49 [] c = "2" -> 50 [] c = "3" -> 51
          [] c = "4" -> 52 [] c = "5" -> 53 [] c = "6" -> 54 [] c = "7" -> 55
          [] c = "8" -> 56 [] c = "9" -> 57 [] c = ":" -> 58 [] c = "T" -> 84
          [] c = "Z" -> 90 [] c = "e" -> 101 [] c = "x" -> 120]

\* str < str: lexicographic by code point
RECURSIVE LexLess(_, _)
LexLess(a, b) ==
    IF b = <<>> THEN FALSE
    ELSE IF a = <<>> THEN TRUE
    ELSE IF Ord[Head(a)] # Ord[Head(b)] THEN Ord[Head(a)] < Ord[Head(b)]
    ELSE LexLess(Tail(a), Tail(b))

DigitChar == <<"0", "1", "2", "3", "4", "5", "6", "7", "8", "9">>

\* str(n) for a natural number n
RECURSIVE NatToChars(_)
NatToChars(n) ==
    IF n < 10 THEN <<DigitChar[n + 1]>>
    ELSE NatToChars(n \div 10) \o <<DigitChar[(n % 10) + 1]>>

----------------------------------------------------------------------------
(* aggregate_logs/scripts/run.py *)

ErrorLevels == {"ERROR", "FATAL", "CRITICAL"}

\* variant: only the level ERROR counts as an error
IsErrorLevelOnlyError(level) == level.t = "str" /\ level.s = "ERROR"

\* level in ["ERROR", "FATAL", "CRITICAL"]
IsErrorLevel(level) == level.t = "str" /\ level.s \in ErrorLevels

\* sorted(hourly_events.keys())[:24]
HourlyCap == 24
\* compute_top_signatures(events, limit=10)
TopLimit == 10
\* example_message: ...[:200]
MessageCap == 200

\* variant: timestamp[:10], a bucket per day
HourKeyByDay(c) == SubSeq(c, 1, Min(10, Len(c))) \o <<":", "0", "0", ":", "0", "0">>

\* timestamp[:13] + ":00:00"
HourKey(c) == SubSeq(c, 1, Min(13, Len(c))) \o <<":", "0", "0", ":", "0", "0">>

\* The event enters a bucket: its timestamp is a non-empty string.  A missing,
\* null, empty, zero or otherwise falsy timestamp fails `if timestamp`; any
\* other non-string raises inside the try block and the event is skipped.
IsBucketed(e) ==
    LET timestamp == Get(e.timestamp, Chars(<<>>))
    IN  timestamp.t = "chars" /\ timestamp.c # <<>>

compute_hourly_trends(evs) ==
    LET timed == SelectSeq(evs, IsBucketed)
        keyOf == Tuple([i \in 1..Len(timed) |-> HourKey(timed[i].timestamp.c)])
        keys == FirstSeen(keyOf)
        hours == StableSort(keys, [a \in Elements(keys), b \in Elements(keys) |-> LexLess(a, b)])
        kept == SubSeq(hours, 1, Min(HourlyCap, Len(hours)))
        trend(hour) ==
            LET hour_events == {i \in 1..Len(timed) : keyOf[i] = hour}
                error_count == Cardinality({i \in hour_events :
                                   IsErrorLevel(Get(timed[i].level, Null))})
            IN  [hour |-> hour,
                 total_events |-> Cardinality(hour_events),
                 error_count |-> error_count,
                 error_rate |-> [num |-> error_count, den |-> Cardinality(hour_events)]]
    IN  Tuple([r \in 1..Len(kept) |-> trend(kept[r])])

\* What processing one event raises in compute_service_stats ("none" if nothing):
\* None.get / [].get -> AttributeError; an unhashable service as dict key, or a
\* latency that cannot be compared with 0 -> TypeError.
StatsExc(e) ==
    LET service == Get(e.service, Str("unknown"))
        metadata == Get(e.metadata, Meta(Absent))
    IN  IF metadata.t # "map" THEN "AttributeError"
        ELSE IF service.t = "list" THEN "TypeError"
        ELSE IF Get(metadata.latency_ms, Num(0)).t # "num" THEN "TypeError"
        ELSE "none"

\* the exception compute_service_stats leaves with: that of the first bad event
ServiceStatsExc(evs) ==
    LET bad == {i \in 1..Len(evs) : StatsExc(evs[i]) # "none"}
    IN  IF bad = {} THEN "none"
        ELSE StatsExc(evs[CHOOSE i \in bad : \A j \in bad : i <= j])

LatencyOf(e) == Get(Get(e.metadata, Meta(Absent)).latency_ms, Num(0)).n

\* variant: the index counted from the end, as if the list were sorted descending
PercentileDescending(latencies, pct) ==
    IF latencies = <<>> THEN 0
    ELSE latencies[Len(latencies) - ((Len(latencies) * pct) \div 100)]

\* variant: the value at rank ceil(n * q), counted from 1
PercentileAtCeiling(latencies, pct) ==
    IF latencies = <<>> THEN 0
    ELSE latencies[((Len(latencies) * pct + 99) \div 100)]

\* latencies[int(n * q)], q = pct / 100, 0-based index into the sorted list
Percentile(latencies, pct) ==
    IF latencies = <<>> THEN 0
    ELSE latencies[((Len(latencies) * pct) \div 100) + 1]

\* variant: a service's error_rate taken over the events of all services
compute_service_stats_overall_rate(evs) ==
    LET serviceOf == Tuple([i \in 1..Len(evs) |-> Get(evs[i].service, Str("unknown"))])
        services == FirstSeen(serviceOf)
        stats(service) ==
            LET mine == SelectSeq(evs, LAMBDA e : Get(e.service, Str("unknown")) = service)
                errors == Len(SelectSeq(mine,
                              LAMBDA e : IsErrorLevel(Get(e.level, Str("INFO")))))
                recorded == SelectSeq(mine, LAMBDA e : LatencyOf(e) > 0)
                measured == Tuple([i \in 1..Len(recorded) |-> LatencyOf(recorded[i])])
                latencies == StableSort(measured,
                                 [a \in Elements(measured), b \in Elements(measured) |-> a < b])
            IN  [service |-> service,
                 total |-> Len(mine),
                 errors |-> errors,
                 error_rate |-> [num |-> errors, den |-> Len(evs)],
                 p50_latency_ms |-> Percentile(latencies, 50),
                 p95_latency_ms |-> Percentile(latencies, 95),
                 p99_latency_ms |-> Percentile(latencies, 99)]
    IN  Tuple([r \in 1..Len(services) |-> stats(services[r])])

\* The returned dict as the sequence of its items, in insertion order.
compute_service_stats(evs) ==
    LET serviceOf == Tuple([i \in 1..Len(evs) |-> Get(evs[i].service, Str("unknown"))])
        services == FirstSeen(serviceOf)
        stats(service) ==
            LET mine == SelectSeq(evs, LAMBDA e : Get(e.service, Str("unknown")) = service)
                errors == Len(SelectSeq(mine,
                              LAMBDA e : IsErrorLevel(Get(e.level, Str("INFO")))))
                recorded == SelectSeq(mine, LAMBDA e : LatencyOf(e) > 0)
                measured == Tuple([i \in 1..Len(recorded) |-> LatencyOf(recorded[i])])
                latencies == StableSort(measured,
                                 [a \in Elements(measured), b \in Elements(measured) |-> a < b])
            IN  [service |-> service,
                 total |-> Len(mine),
                 errors |-> errors,
                 error_rate |-> [num |-> errors, den |-> Len(mine)],
                 p50_latency_ms |-> Percentile(latencies, 50),
                 p95_latency_ms |-> Percentile(latencies, 95),
                 p99_latency_ms |-> Percentile(latencies, 99)]
    IN  Tuple([r \in 1..Len(services) |-> stats(services[r])])

\* the error-level events, as compute_top_signatures selects them
ErrorEvents(evs) == SelectSeq(evs, LAMBDA e : IsErrorLevel(Get(e.level, Str("INFO"))))

\* signature_counts.items(): [signature, count, message] in first-seen order
SignatureCounts(evs) ==
    LET errs == ErrorEvents(evs)
        sigOf == Tuple([i \in 1..Len(errs) |-> Get(errs[i].signature, Str("UNKNOWN"))])
        sigs == FirstSeen(sigOf)
        first(sig) == CHOOSE i \in 1..Len(errs) :
                          sigOf[i] = sig /\ \A j \in 1..(i - 1) : sigOf[j] # sig
    IN  Tuple([r \in 1..Len(sigs) |->
            [signature |-> sigs[r],
             count |-> Cardinality({i \in 1..Len(errs) : sigOf[i] = sigs[r]}),
             message |-> Get(errs[first(sigs[r])].message, Chars(<<>>))]])

\* variant: among equal counts the signature seen last comes first
TopItemsLastSeenFirst(evs, limit) ==
    LET items == SignatureCounts(evs)
        sorted_signatures == StableSort(items,
                                 [a \in Elements(items), b \in Elements(items) |-> a.count >= b.count])
    IN  SubSeq(sorted_signatures, 1, Min(limit, Len(sorted_signatures)))

\* sorted(signature_counts.items(), key=count, reverse=True)[:limit]
TopItems(evs, limit) ==
    LET items == SignatureCounts(evs)
        sorted_signatures == StableSort(items,
                                 [a \in Elements(items), b \in Elements(items) |-> a.count > b.count])
    IN  SubSeq(sorted_signatures, 1, Min(limit, Len(sorted_signatures)))

\* What compute_top_signatures raises: an unhashable signature of an error
\* event cannot be a dict key; a null or numeric message cannot be sliced.
TopSignaturesExc(evs, limit) ==
    IF \E i \in 1..Len(evs) :
           /\ IsErrorLevel(Get(evs[i].level, Str("INFO")))
           /\ Get(evs[i].signature, Str("UNKNOWN")).t = "list"
    THEN "TypeError"
    ELSE LET top == TopItems(evs, limit)
         IN  IF \E r \in 1..Len(top) : top[r].message.t \in {"null", "num"}
             THEN "TypeError"
             ELSE "none"

\* message[:200]; slicing a list gives a list
Truncate(message) ==
    IF message.t = "chars"
    THEN Chars(SubSeq(message.c, 1, Min(MessageCap, Len(message.c))))
    ELSE message

\* variant: the percentage taken of the reported entries' counts only
compute_top_signatures_of_reported(evs, limit) ==
    LET top == TopItems(evs, limit)
        counted[k \in 0..Len(top)] == IF k = 0 THEN 0 ELSE counted[k - 1] + top[k].count
        total_errors == counted[Len(top)]
    IN  Tuple([r \in 1..Len(top) |->
            [signature |-> top[r].signature,
             count |-> top[r].count,
             percentage |-> IF total_errors > 0
                            THEN RoundHalfEven(top[r].count * 1000, total_errors)
                            ELSE 0,
             example_message |-> Truncate(top[r].message)]])

compute_top_signatures(evs, limit) ==
    LET top == TopItems(evs, limit)
        total_errors == Len(ErrorEvents(evs))
    IN  Tuple([r \in 1..Len(top) |->
            [signature |-> top[r].signature,
             count |-> top[r].count,
             percentage |-> IF total_errors > 0
                            THEN RoundHalfEven(top[r].count * 1000, total_errors)
                            ELSE 0,
             example_message |-> Truncate(top[r].message)]])

\* repr(round(x, 1)) of a float with `tenths` tenths; -0.0 keeps its sign
FloatRepr(tenths, negative) ==
    LET a == IF tenths < 0 THEN -tenths ELSE tenths
    IN  (IF negative THEN <<"-">> ELSE <<>>)
          \o NatToChars(a \div 10) \o <<".">> \o <<DigitChar[(a % 10) + 1]>>

\* variant: a rise from a base of 0 shown as +1000.0%
PercentStringFromZero(num, den) ==
    IF den <= 0 THEN (IF num > 0 THEN <<"+", "1", "0", "0", "0", ".", "0", "%">>
                      ELSE <<"0", "%">>)
    ELSE (IF num > 0 THEN <<"+">> ELSE <<>>)
           \o FloatRepr(RoundHalfEven(num * 1000, den), num < 0) \o <<"%">>

\* variant: a leading "+" for every change that is not negative
PercentStringPlusZero(num, den) ==
    IF den <= 0 THEN <<"0", "%">>
    ELSE (IF num >= 0 THEN <<"+">> ELSE <<>>)
           \o FloatRepr(RoundHalfEven(num * 1000, den), num < 0) \o <<"%">>

\* f"{'+' if change > 0 else ''}{round(change, 1)}%" for change = num / den * 100
\* with den > 0; when the baseline value is not positive change is the int 0
PercentString(num, den) ==
    IF den <= 0 THEN <<"0", "%">>
    ELSE (IF num > 0 THEN <<"+">> ELSE <<>>)
           \o FloatRepr(RoundHalfEven(num * 1000, den), num < 0) \o <<"%">>

\* baseline: the file on disk: [t |-> "missing"], [t |-> "corrupt"] (json.load
\* or a field access raises, caught by the except clause), or the mapping
\* [t |-> "map", error_rate (1/10000), total_events].
compute_baseline_comparison(total_events, error_count, baseline) ==
    IF baseline.t # "map" THEN Null
    ELSE [t |-> "map",
          error_rate_change |->
              Chars(PercentString(error_count * 10000 - baseline.error_rate * total_events,
                                  baseline.error_rate * total_events)),
          volume_change |->
              Chars(PercentString(total_events - baseline.total_events,
                                  baseline.total_events)),
          baseline_error_rate |-> Num(baseline.error_rate),
          baseline_total_events |-> Num(baseline.total_events)]

\* input_data.get("events", [])
EventsOf(doc) == IF doc.events.t = "list" THEN doc.events.l ELSE <<>>

\* variant: an empty mapping instead of None for the comparison
EmptySummaryWithMapping(doc) ==
    [total_events |-> 0, error_count |-> 0, error_rate |-> 0,
     time_range |-> Get(doc.time_range, Str("24h")),
     top_signatures |-> <<>>, service_stats |-> <<>>, hourly_trends |-> <<>>,
     baseline_comparison |-> [t |-> "map"], timestamp |-> Absent]

\* the summary returned for `if not events`
EmptySummary(doc) ==
    [total_events |-> 0, error_count |-> 0, error_rate |-> 0,
     time_range |-> Get(doc.time_range, Str("24h")),
     top_signatures |-> <<>>, service_stats |-> <<>>, hourly_trends |-> <<>>,
     baseline_comparison |-> Null, timestamp |-> Absent]

Summary(doc, baseline, now) ==
    LET evs == EventsOf(doc)
        total_events == Len(evs)
        error_count == Len(SelectSeq(evs, LAMBDA e : IsErrorLevel(Get(e.level, Null))))
    IN  [total_events |-> total_events,
         error_count |-> error_count,
         error_rate |-> RoundHalfEven(error_count * 10000, total_events),
         time_range |-> Get(doc.time_range, Str("24h")),
         top_signatures |-> compute_top_signatures(evs, TopLimit),
         service_stats |-> compute_service_stats(evs),
         hourly_trends |-> compute_hourly_trends(evs),
         baseline_comparison |-> compute_baseline_comparison(total_events, error_count, baseline),
         timestamp |-> Num(now)]

\* open(output_dir / "metrics.json", "w") when output/ cannot be written
WriteExc(writable) == IF writable THEN "none" ELSE "OSError"

\* run(input_data): what it returns or raises, and whether it wrote the document
run(doc, baseline, writable, now) ==
    LET evs == EventsOf(doc)
        top_exc == TopSignaturesExc(evs, TopLimit)
        stats_exc == ServiceStatsExc(evs)
        exc == IF top_exc # "none" THEN top_exc
               ELSE IF stats_exc # "none" THEN stats_exc
               ELSE WriteExc(writable)
    IN  IF evs = <<>>
        THEN [st |-> "returned", value |-> EmptySummary(doc), wrote |-> FALSE]
        ELSE IF exc # "none"
        THEN [st |-> "raised", value |-> Str(exc), wrote |-> FALSE]
        ELSE [st |-> "returned", value |-> Summary(doc, baseline, now), wrote |-> TRUE]

\* variant: the process exits 0 whatever happened
ExitStatusAlwaysZero(out) == 0

\* main(): exit status of the skill process
ExitStatus(out) == IF out.st = "returned" THEN 0 ELSE 1

----------------------------------------------------------------------------
(* detect_anomalies/scripts/run.py *)
(* Thresholds: `threshold` in 1/100, `min_absolute_rate` in 1/10000.       *)

SpikeConfig(threshold, severity, min_absolute_rate) ==
    [t |-> "map", threshold |-> threshold, severity |-> severity,
     min_absolute_rate |-> min_absolute_rate]
CountConfig(threshold, severity, min_absolute_count) ==
    [t |-> "map", threshold |-> threshold, severity |-> severity,
     min_absolute_count |-> min_absolute_count]
SignatureConfig(min_occurrences, severity) ==
    [t |-> "map", min_occurrences |-> min_occurrences, severity |-> severity]
LatencyConfig(threshold_ms, severity) ==
    [t |-> "map", threshold_ms |-> threshold_ms, severity |-> severity]

DEFAULT_THRESHOLDS ==
    [error_rate_spike |-> SpikeConfig(Num(200), Str("high"), Num(100)),
     error_count_spike |-> CountConfig(Num(300), Str("high"), Num(10)),
     new_error_signature |-> SignatureConfig(Num(5), Str("medium")),
     latency_spike |-> LatencyConfig(Num(3000), Str("medium"))]

ThresholdKeys == DOMAIN DEFAULT_THRESHOLDS

\* load_config(threshold_file): None when the file is missing, cannot be parsed
\* or is empty; otherwise whatever the file holds
load_config(file) == IF file.t \in {"missing", "corrupt", "empty"} THEN Null ELSE file

\* load_thresholds raises when the file's top level is not a mapping
LoadThresholdsExc(file) ==
    IF load_config(file).t \in {"null", "map"} THEN "none" ELSE "TypeError"

\* variant: a record of the file is merged into the default record, parameter
\* by parameter
load_thresholds_deep(file) ==
    LET thresholds == load_config(file)
    IN  IF thresholds.t = "null" THEN DEFAULT_THRESHOLDS
        ELSE [key \in ThresholdKeys |->
                IF thresholds[key].t = "absent" THEN DEFAULT_THRESHOLDS[key]
                ELSE IF thresholds[key].t # "map" THEN thresholds[key]
                ELSE [f \in DOMAIN thresholds[key] |->
                        IF f # "t" /\ thresholds[key][f].t = "absent"
                        THEN DEFAULT_THRESHOLDS[key][f]
                        ELSE thresholds[key][f]]]

load_thresholds(file) ==
    LET thresholds == load_config(file)
    IN  IF thresholds.t = "null" THEN DEFAULT_THRESHOLDS
        ELSE [key \in ThresholdKeys |->
                IF thresholds[key].t = "absent" THEN DEFAULT_THRESHOLDS[key]
                ELSE thresholds[key]]

DigitValue(c) == CHOOSE d \in 0..9 : DigitChar[d + 1] = c
IsDigit(c) == \E d \in 0..9 : DigitChar[d + 1] = c

\* s.replace(c, ""): every occurrence removed
Remove(s, c) == SelectSeq(s, LAMBDA x : x # c)

\* the digits of s read as a decimal number
DigitsValue(s) ==
    LET v[k \in 0..Len(s)] == IF k = 0 THEN 0 ELSE 10 * v[k - 1] + DigitValue(s[k])
    IN  v[Len(s)]

Pow10(n) ==
    LET p[k \in 0..n] == IF k = 0 THEN 1 ELSE 10 * p[k - 1]
    IN  p[n]

\* float(s) for s made of digits, "-", "." and other characters: an optional
\* minus, digits with at most one point and at least one digit; anything else
\* is a ValueError (ok = FALSE).  The value is num / den.
ParseFloat(s) ==
    LET negative == s # <<>> /\ Head(s) = "-"
        body == IF negative THEN Tail(s) ELSE s
        digits == Remove(body, ".")
        points == Len(body) - Len(digits)
        point == IF points = 0 THEN Len(body) + 1
                 ELSE CHOOSE i \in 1..Len(body) : body[i] = "."
        ok == /\ digits # <<>>
              /\ points <= 1
              /\ \A i \in 1..Len(digits) : IsDigit(digits[i])
    IN  IF ~ok THEN [ok |-> FALSE, num |-> 0, den |-> 1]
        ELSE [ok |-> TRUE,
              num |-> IF negative THEN -DigitsValue(digits) ELSE DigitsValue(digits),
              den |-> Pow10(Len(digits) - (point - 1))]

\* float(error_rate_change_str.replace("%", "").replace("+", "")), 0 on ValueError
ParseChange(str) == ParseFloat(Remove(Remove(str, "%"), "+"))

\* f"{value}": a string as it is, None as the text None
Format(value) == IF value.t = "null" THEN Str("None") ELSE value

EmptyComparison ==
    [t |-> "map", error_rate_change |-> Absent, volume_change |-> Absent,
     baseline_error_rate |-> Absent, baseline_total_events |-> Absent]

\* What detect_error_spikes raises: None has no .get (baseline_comparison or
\* the configured record is null or no mapping), a non-string change has no
\* .replace, a null threshold cannot be multiplied.
ErrorSpikesExc(metrics, thresholds) ==
    LET baseline == Get(metrics.baseline_comparison, EmptyComparison)
        spike_config == thresholds.error_rate_spike
    IN  IF baseline.t # "map" THEN "AttributeError"
        ELSE IF Get(baseline.error_rate_change, Chars(<<"0", "%">>)).t # "chars"
        THEN "AttributeError"
        ELSE IF spike_config.t # "map" THEN "AttributeError"
        ELSE IF Get(spike_config.threshold, Num(200)).t # "num" THEN "TypeError"
        ELSE "none"

\* variant: the change must exceed the threshold (> for >=)
detect_error_spikes_strict(metrics, thresholds, now) ==
    LET baseline == Get(metrics.baseline_comparison, EmptyComparison)
        error_rate == Get(metrics.error_rate, Num(0)).n
        error_rate_change == ParseChange(Get(baseline.error_rate_change, Chars(<<"0", "%">>)).c)
        spike_config == thresholds.error_rate_spike
        threshold == Get(spike_config.threshold, Num(200)).n
        min_absolute_rate == Get(spike_config.min_absolute_rate, Num(100)).n
    IN  IF /\ error_rate_change.num > threshold * error_rate_change.den
           /\ error_rate >= min_absolute_rate
        THEN <<[id |-> <<"anom_err_spike", Absent, now>>,
                type |-> "ERROR_RATE_SPIKE",
                severity |-> Get(spike_config.severity, Str("high")),
                confidence |-> [num |-> Min(190 * error_rate_change.den,
                                            100 * error_rate_change.den + error_rate_change.num),
                                den |-> 200 * error_rate_change.den],
                subject |-> Absent,
                value |-> Num(error_rate)]>>
        ELSE <<>>

detect_error_spikes(metrics, thresholds, now) ==
    LET baseline == Get(metrics.baseline_comparison, EmptyComparison)
        error_rate == Get(metrics.error_rate, Num(0)).n
        error_rate_change == ParseChange(Get(baseline.error_rate_change, Chars(<<"0", "%">>)).c)
        spike_config == thresholds.error_rate_spike
        threshold == Get(spike_config.threshold, Num(200)).n
        min_absolute_rate == Get(spike_config.min_absolute_rate, Num(100)).n
    IN  IF /\ error_rate_change.num >= threshold * error_rate_change.den
           /\ error_rate >= min_absolute_rate
        THEN <<[id |-> <<"anom_err_spike", Absent, now>>,
                type |-> "ERROR_RATE_SPIKE",
                severity |-> Get(spike_config.severity, Str("high")),
                confidence |-> [num |-> Min(190 * error_rate_change.den,
                                            100 * error_rate_change.den + error_rate_change.num),
                                den |-> 200 * error_rate_change.den],
                subject |-> Absent,
                value |-> Num(error_rate)]>>
        ELSE <<>>

\* metrics.get("top_signatures", []) / metrics.get("service_stats", {}).items()
ItemsOf(j) == IF j.t = "absent" THEN <<>> ELSE j.l

NewSignaturesExc(metrics, thresholds) ==
    IF thresholds.new_error_signature.t # "map" THEN "AttributeError" ELSE "none"

\* variant: GENERIC_ERROR is reported like any other signature
detect_every_signature(metrics, thresholds, now) ==
    LET top_signatures == ItemsOf(metrics.top_signatures)
        new_config == thresholds.new_error_signature
        min_occurrences == Get(new_config.min_occurrences, Num(5)).n
        anomaly(sig) ==
            [id |-> <<"anom_new_sig", Format(Get(sig.signature, Str(""))), now>>,
             type |-> "NEW_ERROR_SIGNATURE",
             severity |-> Get(new_config.severity, Str("medium")),
             confidence |-> [num |-> Min(90, 60 + Get(sig.count, Num(0)).n), den |-> 100],
             subject |-> Get(sig.signature, Str("")),
             value |-> Get(sig.count, Num(0))]
        hits == SelectSeq(top_signatures,
                          LAMBDA sig : Get(sig.count, Num(0)).n >= min_occurrences)
    IN  Tuple([i \in 1..Len(hits) |-> anomaly(hits[i])])

detect_new_error_signatures(metrics, thresholds, now) ==
    LET top_signatures == ItemsOf(metrics.top_signatures)
        new_config == thresholds.new_error_signature
        min_occurrences == Get(new_config.min_occurrences, Num(5)).n
        qualifies(sig) ==
            /\ Get(sig.count, Num(0)).n >= min_occurrences
            /\ Get(sig.signature, Str("")) # Str("GENERIC_ERROR")
        anomaly(sig) ==
            [id |-> <<"anom_new_sig", Format(Get(sig.signature, Str(""))), now>>,
             type |-> "NEW_ERROR_SIGNATURE",
             severity |-> Get(new_config.severity, Str("medium")),
             confidence |-> [num |-> Min(90, 60 + Get(sig.count, Num(0)).n), den |-> 100],
             subject |-> Get(sig.signature, Str("")),
             value |-> Get(sig.count, Num(0))]
        hits == SelectSeq(top_signatures, qualifies)
    IN  Tuple([i \in 1..Len(hits) |-> anomaly(hits[i])])

\* variant: the p95 must exceed the threshold (> for >=)
LatencyHitsAbove(metrics, thresholds) ==
    LET threshold_ms == Get(thresholds.latency_spike.threshold_ms, Num(3000)).n
    IN  SelectSeq(ItemsOf(metrics.service_stats),
                  LAMBDA stats : Get(stats.p95_latency_ms, Num(0)).n > threshold_ms)

\* The services whose p95 reaches the threshold, in service_stats order.
LatencyHits(metrics, thresholds) ==
    LET threshold_ms == Get(thresholds.latency_spike.threshold_ms, Num(3000)).n
    IN  SelectSeq(ItemsOf(metrics.service_stats),
                  LAMBDA stats : Get(stats.p95_latency_ms, Num(0)).n >= threshold_ms)

\* What detect_latency_issues raises: None.get, or p95 / threshold_ms with
\* threshold_ms = 0 for the first service that reaches the threshold
LatencyIssuesExc(metrics, thresholds) ==
    IF thresholds.latency_spike.t # "map" THEN "AttributeError"
    ELSE IF /\ Get(thresholds.latency_spike.threshold_ms, Num(3000)).n = 0
            /\ LatencyHits(metrics, thresholds) # <<>>
    THEN "ZeroDivisionError"
    ELSE "none"

\* confidence min(0.85, 0.5 + p95 / threshold_ms / 2) over the denominator
\* 200 * |threshold_ms|
detect_latency_issues(metrics, thresholds, now) ==
    LET latency_config == thresholds.latency_spike
        threshold_ms == Get(latency_config.threshold_ms, Num(3000)).n
        sign == IF threshold_ms < 0 THEN -1 ELSE 1
        den == 200 * sign * threshold_ms
        anomaly(stats) ==
            LET p95 == Get(stats.p95_latency_ms, Num(0)).n
            IN  [id |-> <<"anom_latency", Format(stats.service), now>>,
                 type |-> "LATENCY_SPIKE",
                 severity |-> Get(latency_config.severity, Str("medium")),
                 confidence |-> [num |-> Min(170 * sign * threshold_ms,
                                             100 * sign * (threshold_ms + p95)),
                                 den |-> den],
                 subject |-> stats.service,
                 value |-> Num(p95)]
        hits == LatencyHits(metrics, thresholds)
    IN  Tuple([i \in 1..Len(hits) |-> anomaly(hits[i])])

\* variant: an error-rate spike suppresses the latency anomalies
detect_spike_suppresses(metrics, file, writable, now) ==
    LET load_exc == LoadThresholdsExc(file)
        thresholds == load_thresholds(file)
        exc == IF load_exc # "none" THEN load_exc
               ELSE IF ErrorSpikesExc(metrics, thresholds) # "none"
               THEN ErrorSpikesExc(metrics, thresholds)
               ELSE IF NewSignaturesExc(metrics, thresholds) # "none"
               THEN NewSignaturesExc(metrics, thresholds)
               ELSE IF LatencyIssuesExc(metrics, thresholds) # "none"
               THEN LatencyIssuesExc(metrics, thresholds)
               ELSE WriteExc(writable)
        spikes == detect_error_spikes(metrics, thresholds, now)
        all_anomalies == spikes
                           \o detect_new_error_signatures(metrics, thresholds, now)
                           \o (IF spikes # <<>> THEN <<>>
                               ELSE detect_latency_issues(metrics, thresholds, now))
    IN  IF exc # "none"
        THEN [st |-> "raised", value |-> Str(exc), wrote |-> FALSE]
        ELSE [st |-> "returned",
              value |-> [anomalies |-> all_anomalies,
                         total_anomalies |-> Len(all_anomalies),
                         detection_time |-> Num(now)],
              wrote |-> TRUE]

\* detect_anomalies run(input_data): what it returns or raises, and whether
\* it wrote output/anomalies.json
detect(metrics, file, writable, now) ==
    LET load_exc == LoadThresholdsExc(file)
        thresholds == load_thresholds(file)
        exc == IF load_exc # "none" THEN load_exc
               ELSE IF ErrorSpikesExc(metrics, thresholds) # "none"
               THEN ErrorSpikesExc(metrics, thresholds)
               ELSE IF NewSignaturesExc(metrics, thresholds) # "none"
               THEN NewSignaturesExc(metrics, thresholds)
               ELSE IF LatencyIssuesExc(metrics, thresholds) # "none"
               THEN LatencyIssuesExc(metrics, thresholds)
               ELSE WriteExc(writable)
        all_anomalies == detect_error_spikes(metrics, thresholds, now)
                           \o detect_new_error_signatures(metrics, thresholds, now)
                           \o detect_latency_issues(metrics, thresholds, now)
    IN  IF exc # "none"
        THEN [st |-> "raised", value |-> Str(exc), wrote |-> FALSE]
        ELSE [st |-> "returned",
              value |-> [anomalies |-> all_anomalies,
                         total_anomalies |-> Len(all_anomalies),
                         detection_time |-> Num(now)],
              wrote |-> TRUE]

----------------------------------------------------------------------------
(* Inputs *)

\* longest event list with one malformed event among well-formed ones
MaxEvents == 3
\* longest list of error events over three signatures
MaxSigEvents == 6
\* most distinct signatures in one list
MaxSigs == 12
\* most distinct hours in one list
MaxHours == 26
\* longest list of events with latencies
MaxLatencies == 4
\* longest list of events with distinct messages
MaxMessages == 3
\* latest reading of the clock, in seconds
MaxClock == 1

Clock == 0..MaxClock

Event(timestamp, service, level, signature, message, metadata) ==
    [timestamp |-> timestamp, service |-> service, level |-> level,
     signature |-> signature, message |-> message, metadata |-> metadata]

Two(n) == <<DigitChar[(n \div 10) + 1], DigitChar[(n % 10) + 1]>>

\* the ISO-8601 timestamp of minute `minute` of the h-th hour of January 2024
Timestamp(h, minute) ==
    <<"2", "0", "2", "4", "-", "0", "1", "-">> \o Two(1 + (h \div 24)) \o <<"T">>
      \o Two(h % 24) \o <<":">> \o Two(minute) \o <<":", "0", "0", "Z">>

Text == <<"x", "x", "x">>

Good == Event(Chars(Timestamp(13, 5)), Str("api"), Str("ERROR"), Str("TIMEOUT"),
              Chars(Text), Meta(Num(120)))
Quiet == Event(Chars(Timestamp(14, 0)), Str("db"), Str("INFO"), Str("INFO"),
               Chars(<<"x">>), Meta(Absent))

\* Good with one field missing, null, of the wrong type or at an edge value
Variants ==
    {[Good EXCEPT !.timestamp = v] :
        v \in {Absent, Null, Chars(<<>>), Num(5), JList, Chars(<<"2", "0", "2", "4">>),
               Chars(Timestamp(13, 59))}}
    \cup {[Good EXCEPT !.service = v] : v \in {Absent, Null, JList, Str("db")}}
    \cup {[Good EXCEPT !.level = v] :
            v \in {Absent, Null, Str("FATAL"), Str("CRITICAL"), Str("WARN"), Str("error")}}
    \cup {[Good EXCEPT !.signature = v] : v \in {Absent, Null, JList, Str("GENERIC_ERROR")}}
    \cup {[Good EXCEPT !.message = v] : v \in {Absent, Null, Num(1), JList}}
    \cup {[Good EXCEPT !.metadata = v] :
            v \in {Absent, Null, JList, Meta(Absent), Meta(Null), Meta(Str("slow")),
                   Meta(Num(0)), Meta(Num(-5)), Meta(Num(4000))}}
    \cup {[Quiet EXCEPT !.message = v] : v \in {Null, Num(1)}}
    \cup {[Quiet EXCEPT !.signature = v] : v \in {JList}}

\* event lists of 1..MaxEvents events: one variant among Good and Quiet events
MixedLists ==
    UNION {{Tuple([i \in 1..n |-> IF i = k THEN v ELSE others[i]]) :
               v \in Variants \cup {Good, Quiet}, others \in [1..n -> {Good, Quiet}]} :
           n \in 1..MaxEvents, k \in 1..MaxEvents}

SignatureNames ==
    <<"TIMEOUT", "GENERIC_ERROR", "DB_TIMEOUT", "CONNECTION_REFUSED", "AUTH_FAILED",
      "RATE_LIMIT", "OOM", "NULL_POINTER", "VALIDATION_ERROR", "FORBIDDEN", "NOT_FOUND",
      "UNKNOWN", "DISK_FULL", "DNS_FAILURE", "TLS_HANDSHAKE", "DEADLOCK">>

ErrorOf(s) == [Good EXCEPT !.signature = Str(SignatureNames[s])]

\* every list of at most MaxSigEvents error events over the first three signatures
SignatureLists ==
    UNION {{Tuple([i \in 1..n |-> ErrorOf(f[i])]) : f \in [1..n -> 1..3]} : n \in 0..MaxSigEvents}

\* k distinct signatures once each (last first when reversed), then `extra`
\* more events of signature `again`
ManySignatureLists ==
    {Tuple([i \in 1..(k + extra) |->
        ErrorOf(IF i > k THEN again ELSE IF reversed THEN k + 1 - i ELSE i)]) :
     k \in 1..MaxSigs, extra \in 0..2, again \in {1, MaxSigs}, reversed \in BOOLEAN}

\* one event in each of k distinct hours, visited from hour `start` upwards or
\* downwards around the clock, every `nth` an error; then `extra` more events
\* in hour `start`
HourLists ==
    {Tuple([i \in 1..(k + extra) |->
        [Quiet EXCEPT
           !.timestamp = Chars(Timestamp(IF i > k THEN start
                                         ELSE IF down THEN (start + k - i) % k
                                         ELSE (start + i - 1) % k,
                                         IF i > k THEN 30 ELSE 0)),
           !.level = Str(IF i % nth = 0 THEN "ERROR" ELSE "INFO")]]) :
     k \in 1..MaxHours, start \in {0, 3}, down \in BOOLEAN, nth \in 1..2, extra \in 0..1}

\* every list of at most MaxLatencies events of one service with latency_ms
\* 0, 100, 200 or 300, then as many of another service with 250 if `both`
LatencyLists ==
    UNION {{Tuple([i \in 1..(IF both THEN 2 * n ELSE n) |->
                IF i <= n THEN [Good EXCEPT !.metadata = Meta(Num(f[i]))]
                ELSE [Quiet EXCEPT !.metadata = Meta(Num(250))]]) :
            f \in [1..n -> {0, 100, 200, 300}], both \in {FALSE, n = 3}} :
           n \in 1..MaxLatencies}

\* a message one character longer than the cut
LongText == Tuple([i \in 1..(MessageCap + 1) |-> IF i = 1 THEN "e" ELSE "x"])

\* events of two signatures that differ in message and level
Messages ==
    {[Good EXCEPT !.message = Chars(<<"x">>)],
     [Good EXCEPT !.message = Chars(<<"e">>)],
     [Good EXCEPT !.message = Chars(<<"T">>), !.level = Str("INFO")],
     [Good EXCEPT !.signature = Str("OOM"), !.message = Chars(LongText), !.level = Str("FATAL")],
     [Good EXCEPT !.signature = Str("OOM"), !.message = Absent],
     [Good EXCEPT !.signature = Str("OOM"), !.message = Chars(<<"Z">>)]}

\* every list of at most MaxMessages such events
MessageLists == UNION {[1..n -> Messages] : n \in 1..MaxMessages}

Doc(evs) == [events |-> evs, time_range |-> Str("1h")]

\* documents whose events are absent, null or empty
EmptyDocs ==
    {[events |-> e, time_range |-> r] :
        e \in {Absent, Null, [t |-> "list", l |-> <<>>]}, r \in {Absent, Str("1h")}}

MixedDocs == {Doc([t |-> "list", l |-> l]) : l \in MixedLists}

BulkDocs ==
    {Doc([t |-> "list", l |-> l]) :
        l \in SignatureLists \cup ManySignatureLists \cup HourLists \cup LatencyLists
                \cup MessageLists}

\* baseline snapshots: error rates in 1/10000
Baselines ==
    {[t |-> "missing"], [t |-> "corrupt"],
     [t |-> "map", error_rate |-> 200, total_events |-> 2],
     [t |-> "map", error_rate |-> 5000, total_events |-> 3],
     [t |-> "map", error_rate |-> 0, total_events |-> 0]}

NoFile == [t |-> "missing"]

\* the skill has not been invoked
Idle == [st |-> "idle"]

----------------------------------------------------------------------------
(* The aggregator skill invoked once on an input document *)

\* no detector invocation is under way
DetectorAtRest ==
    /\ metricsIn = Absent
    /\ thresholdFile = NoFile
    /\ anomaliesFile = NoFile
    /\ detOut = Idle

\* the orchestrator is not running
PipelineAtRest ==
    /\ pc = "off"
    /\ logs = 0
    /\ hypotheses = 0
    /\ invoked = <<>>
    /\ pipeline = Idle

\* no processes run side by side and the insights orchestrator is not running
OthersAtRest ==
    /\ procs = <<>>
    /\ insights = Idle

InitAgg ==
    /\ OthersAtRest
    /\ DetectorAtRest
    /\ PipelineAtRest
    /\ \/ /\ inputDoc \in EmptyDocs
          /\ baselineFile \in Baselines
          /\ diskWritable \in BOOLEAN
       \/ /\ inputDoc \in MixedDocs
          /\ baselineFile \in Baselines
          /\ diskWritable = TRUE
       \/ /\ inputDoc \in MixedDocs
          /\ baselineFile = NoFile
          /\ diskWritable = FALSE
       \/ /\ inputDoc \in BulkDocs
          /\ baselineFile = NoFile
          /\ diskWritable = TRUE
    /\ metricsFile = NoFile
    /\ aggOut = Idle

\* aggregate_logs main(): run(input_data) and the exit status
Aggregate ==
    /\ aggOut.st = "idle"
    /\ \E now \in Clock :
          LET out == run(inputDoc, baselineFile, diskWritable, now)
          IN  /\ aggOut' = [st |-> out.st, value |-> out.value, exit |-> ExitStatus(out)]
              /\ metricsFile' = IF out.wrote THEN [t |-> "file", doc |-> out.value]
                                ELSE metricsFile
    /\ UNCHANGED <<inputDoc, baselineFile, diskWritable, detVars, pipeVars, otherVars>>

NextAgg == Aggregate

SpecAgg == InitAgg /\ [][NextAgg]_vars

----------------------------------------------------------------------------
(* The detector skill invoked once on a metrics document *)

MetricsDoc(baseline_comparison, error_rate, top_signatures, service_stats) ==
    [baseline_comparison |-> baseline_comparison, error_rate |-> error_rate,
     top_signatures |-> top_signatures, service_stats |-> service_stats]

Comparison(error_rate_change) ==
    [t |-> "map", error_rate_change |-> error_rate_change, volume_change |-> Absent,
     baseline_error_rate |-> Num(200), baseline_total_events |-> Num(100)]

ChangeStrings ==
    {<<"+", "2", "5", "0", "%">>, <<"+", "2", "5", "0", ".", "0", "%">>,
     <<"+", "2", "0", "0", ".", "0", "%">>, <<"+", "1", "9", "9", ".", "9", "%">>,
     <<"+", "1", "0", "0", ".", "0", "%">>, <<"0", "%">>, <<"0", ".", "0", "%">>,
     <<"-", "0", ".", "0", "%">>, <<"-", "3", "0", "0", ".", "0", "%">>,
     <<"2", "+", "5", "0", "%", "%">>, <<"+", ".", "5", "%">>, <<"9", "0", "0", ".", "%">>,
     <<"x">>, <<>>, <<"-">>, <<"1", ".", "2", ".", "3", "%">>, <<"2", "5", "0", "-">>}

Comparisons == {Absent, Null} \cup {Comparison(c) : c \in {Absent} \cup {Chars(x) : x \in ChangeStrings}}

\* current error rates in 1/10000: absent, 0.005, 0.01, 0.05
Rates == {Absent, Num(50), Num(100), Num(500)}

Signature(name, count) == [signature |-> name, count |-> count, percentage |-> Num(500)]

SignatureTables ==
    {Absent,
     [t |-> "list", l |-> <<>>],
     [t |-> "list", l |-> <<Signature(Str("TIMEOUT"), Num(5)), Signature(Str("GENERIC_ERROR"), Num(9)),
                            Signature(Str("OOM"), Num(4))>>],
     [t |-> "list", l |-> <<Signature(Str("OOM"), Num(40)), Signature(Absent, Num(7)),
                            Signature(Str("TIMEOUT"), Absent), Signature(Null, Num(1))>>]}

Service(name, p95) ==
    [service |-> name, p95_latency_ms |-> p95, p99_latency_ms |-> p95]

ServiceTables ==
    {Absent,
     [t |-> "list", l |-> <<>>],
     [t |-> "list", l |-> <<Service(Str("api"), Num(4000)), Service(Str("db"), Num(2999)),
                            Service(Str("web"), Num(3000))>>],
     [t |-> "list", l |-> <<Service(Str("api"), Absent), Service(Str("db"), Num(0))>>],
     [t |-> "list", l |-> <<Service(Str("db"), Num(9000)), Service(Str("api"), Num(1))>>]}

ThresholdMap(error_rate_spike, new_error_signature, latency_spike) ==
    [t |-> "map", error_rate_spike |-> error_rate_spike, error_count_spike |-> Absent,
     new_error_signature |-> new_error_signature, latency_spike |-> latency_spike]

\* a key's value that is no mapping
NotAMap == {Null, Num(3), Str("high")}

SpikeConfigs ==
    {Absent, SpikeConfig(Absent, Absent, Absent), SpikeConfig(Num(100), Str("low"), Absent),
     SpikeConfig(Num(0), Absent, Num(0)), SpikeConfig(Absent, Absent, Num(500)),
     SpikeConfig(Num(250), Str("critical"), Num(50)), SpikeConfig(Num(-500), Absent, Absent)}

SignatureConfigs ==
    {Absent, SignatureConfig(Absent, Absent), SignatureConfig(Num(1), Str("high")),
     SignatureConfig(Num(0), Absent), SignatureConfig(Num(10), Str("low"))}

LatencyConfigs ==
    {Absent, LatencyConfig(Absent, Absent), LatencyConfig(Num(0), Absent),
     LatencyConfig(Num(4000), Str("low")), LatencyConfig(Num(4000), Absent),
     LatencyConfig(Num(1), Str("high")),
     LatencyConfig(Num(-1000), Absent)}

\* files that are no mapping of keys
OtherFiles == {[t |-> "missing"], [t |-> "corrupt"], [t |-> "empty"], [t |-> "list"]}

TypicalSignatures == CHOOSE x \in SignatureTables : x.t = "list" /\ Len(x.l) = 3
TypicalServices == CHOOSE x \in ServiceTables : x.t = "list" /\ Len(x.l) = 3
TypicalComparison == Comparison(Chars(<<"+", "2", "5", "0", ".", "0", "%">>))

\* <<metrics document, threshold file>>: one rule's inputs vary in full while
\* the other rules see a typical or an absent input
DetectorInputs ==
    {<<MetricsDoc(b, r, s, v), ThresholdMap(e, Absent, Absent)>> :
        b \in Comparisons, r \in Rates, s \in {Absent, TypicalSignatures},
        v \in {Absent, TypicalServices}, e \in SpikeConfigs \cup NotAMap}
    \cup {<<MetricsDoc(b, Num(500), s, v), ThresholdMap(Absent, n, Absent)>> :
        b \in {Absent, TypicalComparison}, s \in SignatureTables,
        v \in {Absent, TypicalServices}, n \in SignatureConfigs \cup NotAMap}
    \cup {<<MetricsDoc(b, Num(500), s, v), ThresholdMap(Absent, Absent, l)>> :
        b \in {Absent, TypicalComparison}, s \in {Absent, TypicalSignatures},
        v \in ServiceTables, l \in LatencyConfigs \cup NotAMap}
    \cup {<<MetricsDoc(b, Num(500), s, v), f>> :
        b \in {Absent, Null, TypicalComparison}, s \in {Absent, TypicalSignatures},
        v \in {Absent, TypicalServices}, f \in OtherFiles}
    \cup {<<MetricsDoc(TypicalComparison, Num(500), TypicalSignatures, TypicalServices),
            ThresholdMap(e, n, l)>> :
        e \in SpikeConfigs, n \in SignatureConfigs, l \in LatencyConfigs}

\* no aggregator invocation is under way
AggregatorAtRest ==
    /\ inputDoc = Absent
    /\ baselineFile = NoFile
    /\ metricsFile = NoFile
    /\ aggOut = Idle

InitDet ==
    /\ OthersAtRest
    /\ AggregatorAtRest
    /\ PipelineAtRest
    /\ \E in \in DetectorInputs : metricsIn = in[1] /\ thresholdFile = in[2]
    /\ diskWritable \in BOOLEAN
    /\ anomaliesFile = NoFile
    /\ detOut = Idle

\* detect_anomalies main(): run(input_data) and the exit status
Detect ==
    /\ detOut.st = "idle"
    /\ \E now \in Clock :
          LET out == detect(metricsIn, thresholdFile, diskWritable, now)
          IN  /\ detOut' = [st |-> out.st, value |-> out.value, exit |-> ExitStatus(out)]
              /\ anomaliesFile' = IF out.wrote THEN [t |-> "file", doc |-> out.value]
                                  ELSE anomaliesFile
    /\ UNCHANGED <<metricsIn, thresholdFile, diskWritable, aggVars, pipeVars, otherVars>>

NextDet == Detect

SpecDet == InitDet /\ [][NextDet]_vars

----------------------------------------------------------------------------
(* src/agentX/pipeline/pipeline.py *)

\* most log entries the fetch skill returns
MaxLogs == 2

\* json.loads(json.dumps(summary)): the metrics document the detector reads
\* (a None key of service_stats is written as "null")
AsMetrics(summary) ==
    [baseline_comparison |-> summary.baseline_comparison,
     error_rate |-> Num(summary.error_rate),
     top_signatures |->
        [t |-> "list",
         l |-> Tuple([i \in 1..Len(summary.top_signatures) |->
                  [signature |-> summary.top_signatures[i].signature,
                   count |-> Num(summary.top_signatures[i].count),
                   percentage |-> Num(summary.top_signatures[i].percentage)]])],
     service_stats |->
        [t |-> "list",
         l |-> Tuple([i \in 1..Len(summary.service_stats) |->
                  [service |-> IF summary.service_stats[i].service = Null THEN Str("null")
                               ELSE summary.service_stats[i].service,
                   p95_latency_ms |-> Num(summary.service_stats[i].p95_latency_ms),
                   p99_latency_ms |-> Num(summary.service_stats[i].p99_latency_ms)]])]]

Slow == [Good EXCEPT !.metadata = Meta(Num(4000)), !.level = Str("WARN")]
Undated == [Quiet EXCEPT !.timestamp = Null]

\* what the parse skill may return for n log entries: each entry either fails
\* to parse or yields one event
ParsedLists(n) ==
    {l \in {<<>>, <<Quiet>>, <<Good>>, <<Slow>>, <<Undated>>, <<Good, Quiet>>,
            <<Slow, Good>>, <<Quiet, Undated>>} : Len(l) <= n}

\* threshold files the pipeline is run with
PipelineThresholds ==
    {NoFile,
     ThresholdMap(Absent, SignatureConfig(Num(1), Absent), Absent),
     ThresholdMap(Absent, Absent, LatencyConfig(Num(0), Absent))}

InitPipe ==
    /\ OthersAtRest
    /\ inputDoc = Absent
    /\ baselineFile \in Baselines
    /\ metricsFile = NoFile
    /\ aggOut = Idle
    /\ metricsIn = Absent
    /\ thresholdFile \in PipelineThresholds
    /\ anomaliesFile = NoFile
    /\ detOut = Idle
    /\ diskWritable \in BOOLEAN
    /\ pc = "main"
    /\ logs = 0
    /\ hypotheses = 0
    /\ invoked = <<>>
    /\ pipeline = Idle

\* run_skill raised PipelineError: main prints the error and returns 1
Failed == [st |-> "raised", value |-> Str("PipelineError"), exit |-> 1]

\* run_pipeline returned {"status": "aborted", "reason": reason}: main returns 1
Aborted(reason) ==
    [st |-> "returned", value |-> [status |-> "aborted", reason |-> reason], exit |-> 1]

\* run_pipeline returned {"status": "success", ...}: main returns 0
Succeeded ==
    [st |-> "returned", value |-> [status |-> "success", reason |-> "none"], exit |-> 0]

\* main(): the configuration file cannot be loaded and main returns 1, or
\* run_pipeline starts
LoadConfig ==
    /\ pc = "main"
    /\ \E loaded \in BOOLEAN :
          IF loaded THEN pc' = "fetch" /\ pipeline' = pipeline
          ELSE pc' = "done" /\ pipeline' = [st |-> "no_config", value |-> Null, exit |-> 1]
    /\ UNCHANGED <<aggVars, detVars, diskWritable, logs, hypotheses, invoked, otherVars>>

\* step_fetch_logs and the `if not logs` check
StepFetch ==
    /\ pc = "fetch"
    /\ invoked' = Append(invoked, "fetch_logs")
    /\ \E ok \in BOOLEAN, n \in 0..MaxLogs :
          IF ~ok THEN pc' = "done" /\ pipeline' = Failed /\ logs' = logs
          ELSE IF n = 0 THEN pc' = "done" /\ pipeline' = Aborted("no_logs") /\ logs' = n
          ELSE pc' = "parse" /\ pipeline' = pipeline /\ logs' = n
    /\ UNCHANGED <<aggVars, detVars, diskWritable, hypotheses, otherVars>>

\* step_parse_logs and the `if not events` check
StepParse ==
    /\ pc = "parse"
    /\ invoked' = Append(invoked, "parse_logs")
    /\ \E ok \in BOOLEAN, l \in ParsedLists(logs) :
          /\ inputDoc' = IF ok THEN Doc([t |-> "list", l |-> l]) ELSE inputDoc
          /\ IF ~ok THEN pc' = "done" /\ pipeline' = Failed
             ELSE IF l = <<>> THEN pc' = "done" /\ pipeline' = Aborted("no_events")
             ELSE pc' = "aggregate" /\ pipeline' = pipeline
    /\ UNCHANGED <<baselineFile, metricsFile, aggOut, detVars, diskWritable, logs, hypotheses, otherVars>>

\* step_aggregate_metrics: the aggregator skill as a subprocess
StepAggregate ==
    /\ pc = "aggregate"
    /\ invoked' = Append(invoked, "aggregate_logs")
    /\ \E now \in Clock :
          LET out == run(inputDoc, baselineFile, diskWritable, now)
          IN  /\ aggOut' = [st |-> out.st, value |-> out.value, exit |-> ExitStatus(out)]
              /\ metricsFile' = IF out.wrote THEN [t |-> "file", doc |-> out.value]
                                ELSE metricsFile
              /\ IF ExitStatus(out) # 0 THEN pc' = "done" /\ pipeline' = Failed
                 ELSE pc' = "detect" /\ pipeline' = pipeline
    /\ UNCHANGED <<inputDoc, baselineFile, detVars, diskWritable, logs, hypotheses, otherVars>>

\* step_detect_anomalies: the detector skill as a subprocess
StepDetect ==
    /\ pc = "detect"
    /\ invoked' = Append(invoked, "detect_anomalies")
    /\ metricsIn' = AsMetrics(aggOut.value)
    /\ \E now \in Clock :
          LET out == detect(AsMetrics(aggOut.value), thresholdFile, diskWritable, now)
          IN  /\ detOut' = [st |-> out.st, value |-> out.value, exit |-> ExitStatus(out)]
              /\ anomaliesFile' = IF out.wrote THEN [t |-> "file", doc |-> out.value]
                                  ELSE anomaliesFile
              /\ IF ExitStatus(out) # 0 THEN pc' = "done" /\ pipeline' = Failed
                 ELSE pc' = "hypothesize" /\ pipeline' = pipeline
    /\ UNCHANGED <<aggVars, thresholdFile, diskWritable, logs, hypotheses, otherVars>>

\* variant: the hypothesis skill run whether or not there are anomalies
StepHypothesizeAlways ==
    /\ pc = "hypothesize"
    /\ invoked' = Append(invoked, "high_hypothesis")
    /\ \E ok \in BOOLEAN, n \in 0..1 :
          IF ok THEN pc' = "summarize" /\ pipeline' = pipeline /\ hypotheses' = n
          ELSE pc' = "done" /\ pipeline' = Failed /\ hypotheses' = hypotheses
    /\ UNCHANGED <<aggVars, detVars, diskWritable, logs, otherVars>>

\* the hypothesis skill, run only `if anomalies`
StepHypothesize ==
    /\ pc = "hypothesize"
    /\ IF detOut.value.anomalies # <<>>
       THEN /\ invoked' = Append(invoked, "high_hypothesis")
            /\ \E ok \in BOOLEAN, n \in 0..1 :
                  IF ok THEN pc' = "summarize" /\ pipeline' = pipeline /\ hypotheses' = n
                  ELSE pc' = "done" /\ pipeline' = Failed /\ hypotheses' = hypotheses
       ELSE /\ invoked' = invoked
            /\ pc' = "summarize" /\ pipeline' = pipeline /\ hypotheses' = 0
    /\ UNCHANGED <<aggVars, detVars, diskWritable, logs, otherVars>>

\* step_generate_summary, run_pipeline's return and main's exit status
StepSummarize ==
    /\ pc = "summarize"
    /\ invoked' = Append(invoked, "generate_summary")
    /\ pc' = "done"
    /\ \E ok \in BOOLEAN : pipeline' = IF ok THEN Succeeded ELSE Failed
    /\ UNCHANGED <<aggVars, detVars, diskWritable, logs, hypotheses, otherVars>>

NextPipe ==
    \/ LoadConfig
    \/ StepFetch
    \/ StepParse
    \/ StepAggregate
    \/ StepDetect
    \/ StepHypothesize
    \/ StepSummarize

SpecPipe == InitPipe /\ [][NextPipe]_vars

----------------------------------------------------------------------------
(* The two skills invoked again and again as processes.  Here inputDoc and *)
(* metricsIn hold what each process read from its standard input: text     *)
(* that is not JSON, a JSON value that is not a mapping, or a mapping.     *)

\* standard input that json.load cannot parse
Unparseable == [t |-> "invalid"]

\* a parsed value on which .get can be called
IsMapping(v) == "t" \notin DOMAIN v \/ v.t = "map"

\* the outcome of an invocation that failed before anything was written
RaisedBeforeWrite(exc) == [st |-> "raised", value |-> Str(exc), wrote |-> FALSE]

\* aggregate_logs main(): json.load(sys.stdin), then run(input_data)
aggregate_main(stdin, baseline, writable, now) ==
    IF stdin = Unparseable THEN RaisedBeforeWrite("JSONDecodeError")
    ELSE IF ~IsMapping(stdin) THEN RaisedBeforeWrite("AttributeError")
    ELSE IF \E i \in 1..Len(EventsOf(stdin)) : ~IsMapping(EventsOf(stdin)[i])
    THEN RaisedBeforeWrite("AttributeError")
    ELSE run(stdin, baseline, writable, now)

\* input_data.get("metrics", {})
MetricsOf(stdin) ==
    IF stdin.metrics = Absent THEN MetricsDoc(Absent, Absent, Absent, Absent)
    ELSE stdin.metrics

\* detect_anomalies main(): json.load(sys.stdin), then run(input_data)
detect_main(stdin, file, writable, now) ==
    IF stdin = Unparseable THEN RaisedBeforeWrite("JSONDecodeError")
    ELSE IF ~IsMapping(stdin) THEN RaisedBeforeWrite("AttributeError")
    ELSE IF ~IsMapping(MetricsOf(stdin)) THEN RaisedBeforeWrite("AttributeError")
    ELSE detect(MetricsOf(stdin), file, writable, now)

\* standard inputs that are no mapping at all
NotADocument == {Unparseable, Null, JList, Num(1)}

\* what the aggregator is given: no mapping, zero events, well-formed events,
\* or an event that is not a mapping
AggregatorInputs ==
    NotADocument
    \cup {[events |-> e, time_range |-> Str("1h")] : e \in {Absent, [t |-> "list", l |-> <<>>]}}
    \cup {Doc([t |-> "list", l |-> l]) :
            l \in {<<Good>>, <<Good, Quiet>>, <<Quiet, Null>>, <<Num(1)>>}}

\* what the detector is given: no mapping, metrics that are no mapping, no
\* metrics, or well-formed metrics
DetectorStdins ==
    NotADocument
    \cup {[metrics |-> m] :
            m \in {Null, JList, Num(1), Absent,
                   MetricsDoc(Absent, Num(500), Absent, Absent),
                   MetricsDoc(TypicalComparison, Num(500), TypicalSignatures,
                              TypicalServices)}}

InitRuns ==
    /\ OthersAtRest
    /\ PipelineAtRest
    /\ inputDoc = Absent
    /\ baselineFile \in {NoFile, [t |-> "map", error_rate |-> 200, total_events |-> 2]}
    /\ metricsFile = NoFile
    /\ aggOut = Idle
    /\ metricsIn = Absent
    /\ thresholdFile = NoFile
    /\ anomaliesFile = NoFile
    /\ detOut = Idle
    /\ diskWritable \in BOOLEAN

\* one more invocation of the aggregate_logs process
AggregateRun ==
    /\ \E stdin \in AggregatorInputs, now \in Clock :
          LET out == aggregate_main(stdin, baselineFile, diskWritable, now)
          IN  /\ inputDoc' = stdin
              /\ aggOut' = [st |-> out.st, value |-> out.value, exit |-> ExitStatus(out)]
              /\ metricsFile' = IF out.wrote THEN [t |-> "file", doc |-> out.value]
                                ELSE metricsFile
    /\ UNCHANGED <<baselineFile, diskWritable, detVars, pipeVars, otherVars>>

\* one more invocation of the detect_anomalies process
DetectRun ==
    /\ \E stdin \in DetectorStdins, now \in Clock :
          LET out == detect_main(stdin, thresholdFile, diskWritable, now)
          IN  /\ metricsIn' = stdin
              /\ detOut' = [st |-> out.st, value |-> out.value, exit |-> ExitStatus(out)]
              /\ anomaliesFile' = IF out.wrote THEN [t |-> "file", doc |-> out.value]
                                  ELSE anomaliesFile
    /\ UNCHANGED <<thresholdFile, diskWritable, aggVars, pipeVars, otherVars>>

NextRuns ==
    \/ AggregateRun
    \/ DetectRun

SpecRuns == InitRuns /\ [][NextRuns]_vars

----------------------------------------------------------------------------
(* Skill processes running side by side in one working directory.  Each    *)
(* process computes its result from its own standard input, opens its      *)
(* output document (which truncates it), writes the text when the file is  *)
(* closed, and returns.                                                    *)

\* number of processes running side by side
MaxProcs == 2

Procs == 1..MaxProcs

\* what the processes are given: a skill and its standard input
Jobs ==
    {[skill |-> "aggregate_logs", stdin |-> d] :
        d \in {[events |-> [t |-> "list", l |-> <<>>], time_range |-> Str("1h")],
               Doc([t |-> "list", l |-> <<Good>>]),
               Doc([t |-> "list", l |-> <<Good, [Quiet EXCEPT !.service = Str("db")]>>])}}
    \cup {[skill |-> "detect_anomalies", stdin |-> [metrics |-> m]] :
            m \in {MetricsDoc(Absent, Num(500), Absent, Absent),
                   MetricsDoc(TypicalComparison, Num(500), TypicalSignatures,
                              TypicalServices)}}

\* output/metrics.json or output/anomalies.json right after open(path, "w")
Truncated == [t |-> "truncated"]

\* how long the text of a result is, counted in the entries of its lists
Extent(skill, value) ==
    IF skill = "aggregate_logs"
    THEN Len(value.top_signatures) + Len(value.service_stats) + Len(value.hourly_trends)
    ELSE Len(value.anomalies)

\* how long the text in a file is
SizeOf(skill, file) ==
    IF file.t = "file" THEN Extent(skill, file.doc)
    ELSE IF file.t = "torn" THEN file.size
    ELSE 0

\* the file after a process wrote its text from offset 0: its own document,
\* or its own text followed by what remains of a longer text
Overwritten(skill, file, value) ==
    IF SizeOf(skill, file) <= Extent(skill, value) THEN [t |-> "file", doc |-> value]
    ELSE [t |-> "torn", doc |-> value, size |-> SizeOf(skill, file)]

\* the document a skill writes
OutputOf(skill) == IF skill = "aggregate_logs" THEN metricsFile ELSE anomaliesFile

InitConc ==
    /\ AggregatorAtRest
    /\ DetectorAtRest
    /\ PipelineAtRest
    /\ insights = Idle
    /\ diskWritable = TRUE
    /\ procs \in [Procs -> {[skill |-> j.skill, stdin |-> j.stdin, pc |-> "main", out |-> Idle] :
                              j \in Jobs}]

\* main() up to the write: json.load(sys.stdin) and run(input_data) as far
\* as the result; a run that raises or returns early is over
Compute(p) ==
    /\ procs[p].pc = "main"
    /\ \E now \in Clock :
          LET out == IF procs[p].skill = "aggregate_logs"
                     THEN aggregate_main(procs[p].stdin, baselineFile, diskWritable, now)
                     ELSE detect_main(procs[p].stdin, thresholdFile, diskWritable, now)
          IN  procs' = [procs EXCEPT
                          ![p].out = [st |-> out.st, value |-> out.value,
                                      exit |-> ExitStatus(out)],
                          ![p].pc = IF out.wrote THEN "open" ELSE "done"]
    /\ UNCHANGED <<aggVars, detVars, pipeVars, diskWritable, insights>>

\* open(output_dir / "<document>.json", "w")
Open(p) ==
    /\ procs[p].pc = "open"
    /\ procs' = [procs EXCEPT ![p].pc = "dump"]
    /\ IF procs[p].skill = "aggregate_logs"
       THEN metricsFile' = Truncated /\ anomaliesFile' = anomaliesFile
       ELSE anomaliesFile' = Truncated /\ metricsFile' = metricsFile
    /\ UNCHANGED <<inputDoc, baselineFile, aggOut, metricsIn, thresholdFile, detOut,
                   pipeVars, diskWritable, insights>>

\* json.dump(result, f, indent=2) and the end of the with block
Dump(p) ==
    /\ procs[p].pc = "dump"
    /\ procs' = [procs EXCEPT ![p].pc = "return"]
    /\ IF procs[p].skill = "aggregate_logs"
       THEN /\ metricsFile' = Overwritten(procs[p].skill, metricsFile, procs[p].out.value)
            /\ anomaliesFile' = anomaliesFile
       ELSE /\ anomaliesFile' = Overwritten(procs[p].skill, anomaliesFile, procs[p].out.value)
            /\ metricsFile' = metricsFile
    /\ UNCHANGED <<inputDoc, baselineFile, aggOut, metricsIn, thresholdFile, detOut,
                   pipeVars, diskWritable, insights>>

\* return result, print(json.dumps(output)) and the end of the process
Return(p) ==
    /\ procs[p].pc = "return"
    /\ procs' = [procs EXCEPT ![p].pc = "done"]
    /\ UNCHANGED <<aggVars, detVars, pipeVars, diskWritable, insights>>

NextConc ==
    \/ \E p \in Procs : Compute(p)
    \/ \E p \in Procs : Open(p)
    \/ \E p \in Procs : Dump(p)
    \/ \E p \in Procs : Return(p)

SpecConc == InitConc /\ [][NextConc]_vars

----------------------------------------------------------------------------
(* The aggregator followed by the detector on the summary it printed *)

NoneNamed == [Good EXCEPT !.signature = Str("None")]
Unnamed == [Good EXCEPT !.signature = Null]

\* event lists for the two skills in a row: parsed events, events whose
\* signature is null or the text None, and events without errors
ChainLists ==
    ParsedLists(MaxLogs) \cup
    {<<Unnamed>>, <<NoneNamed>>, <<Unnamed, NoneNamed>>, <<NoneNamed, Unnamed, Good>>,
     <<Good, Good, Slow>>, <<Quiet, Quiet>>}

InitChain ==
    /\ OthersAtRest
    /\ PipelineAtRest
    /\ inputDoc \in {Doc([t |-> "list", l |-> l]) : l \in ChainLists}
    /\ baselineFile \in Baselines \cup {[t |-> "map", error_rate |-> -100, total_events |-> 2]}
    /\ metricsFile = NoFile
    /\ aggOut = Idle
    /\ metricsIn = Absent
    /\ thresholdFile \in PipelineThresholds \cup
                         {ThresholdMap(e, Absent, Absent) : e \in SpikeConfigs}
    /\ anomaliesFile = NoFile
    /\ detOut = Idle
    /\ diskWritable = TRUE

\* detect_anomalies main() on {"metrics": <what the aggregator printed>}
DetectMetrics ==
    /\ aggOut.st = "returned"
    /\ detOut.st = "idle"
    /\ metricsIn' = AsMetrics(aggOut.value)
    /\ \E now \in Clock :
          LET out == detect(AsMetrics(aggOut.value), thresholdFile, diskWritable, now)
          IN  /\ detOut' = [st |-> out.st, value |-> out.value, exit |-> ExitStatus(out)]
              /\ anomaliesFile' = IF out.wrote THEN [t |-> "file", doc |-> out.value]
                                  ELSE anomaliesFile
    /\ UNCHANGED <<thresholdFile, diskWritable, aggVars, pipeVars, otherVars>>

NextChain ==
    \/ Aggregate
    \/ DetectMetrics

SpecChain == InitChain /\ [][NextChain]_vars

----------------------------------------------------------------------------
(* livelogs_insights/scripts/run.py: the orchestrator of eight steps.  A   *)
(* step is a skill run as a subprocess; it fails when the skill exits with *)
(* a non-zero status or prints something run_pipeline_step or the step     *)
(* cannot use, and the except clause then stores the step's default.       *)

\* the skills of the eight steps, in the order of run
InsightSteps ==
    <<"logsource_discovery", "fetch_logs", "parse_logs", "aggregate_logs",
      "detect_anomalies", "high_hypothesis", "generate_summary", "recommend_actions">>

\* the key of `results` each step stores
ResultKeys ==
    <<"sources", "logs", "events", "metrics", "anomalies", "hypotheses", "summary",
      "recommendations">>

\* the files the run saves under output/insights
InsightFiles == {"summary.md", "anomalies.json", "recommendations.json", "metrics.json"}

InitInsights ==
    /\ AggregatorAtRest
    /\ DetectorAtRest
    /\ PipelineAtRest
    /\ procs = <<>>
    /\ diskWritable \in BOOLEAN
    /\ insights = [pc |-> "main",
                   attempted |-> <<>>,
                   results |-> [key \in {ResultKeys[k] : k \in 1..8} |-> "unset"],
                   anomalies |-> 0,
                   written |-> {},
                   out |-> Idle]

\* main() and the head of run: output_dir.mkdir(parents=True, exist_ok=True)
\* stands outside every try block
Begin ==
    /\ insights.pc = "main"
    /\ insights' = IF diskWritable
                   THEN [insights EXCEPT !.pc = InsightSteps[1]]
                   ELSE [insights EXCEPT !.pc = "done",
                                         !.out = [st |-> "raised", value |-> Str("OSError"),
                                                  exit |-> 1]]
    /\ UNCHANGED <<aggVars, detVars, pipeVars, diskWritable, procs>>

\* steps 1-5, 7 and 8: try run_pipeline_step and store the result, except
\* store the default; step 5 stores the anomaly list (here its length)
Attempt(k) ==
    /\ k # 6
    /\ insights.pc = InsightSteps[k]
    /\ \E ok \in BOOLEAN, n \in 0..1 :
          insights' = [insights EXCEPT
                          !.pc = IF k = 8 THEN "save" ELSE InsightSteps[k + 1],
                          !.attempted = Append(@, InsightSteps[k]),
                          !.results[ResultKeys[k]] = IF ok THEN "produced" ELSE "default",
                          !.anomalies = IF k # 5 THEN @ ELSE IF ok THEN n ELSE 0]
    /\ UNCHANGED <<aggVars, detVars, pipeVars, diskWritable, procs>>

\* step 6: the hypothesis skill, run only `if results["anomalies"]`
Hypothesize ==
    /\ insights.pc = InsightSteps[6]
    /\ IF insights.anomalies > 0
       THEN \E ok \in BOOLEAN :
               insights' = [insights EXCEPT
                               !.pc = InsightSteps[7],
                               !.attempted = Append(@, InsightSteps[6]),
                               !.results["hypotheses"] = IF ok THEN "produced"
                                                         ELSE "default"]
       ELSE insights' = [insights EXCEPT !.pc = InsightSteps[7],
                                         !.results["hypotheses"] = "default"]
    /\ UNCHANGED <<aggVars, detVars, pipeVars, diskWritable, procs>>

\* the four write_text calls and the return of run
Save ==
    /\ insights.pc = "save"
    /\ insights' = [insights EXCEPT !.pc = "done",
                                    !.written = InsightFiles,
                                    !.out = [st |-> "returned",
                                             value |-> insights.results,
                                             exit |-> 0]]
    /\ UNCHANGED <<aggVars, detVars, pipeVars, diskWritable, procs>>

NextInsights ==
    \/ Begin
    \/ \E k \in 1..8 : Attempt(k)
    \/ Hypothesize
    \/ Save

SpecInsights == InitInsights /\ [][NextInsights]_vars

----------------------------------------------------------------------------
(* Properties *)

OfType(anomalies, type) == SelectSeq(anomalies, LAMBDA a : a.type = type)
NotOfType(anomalies, type) == SelectSeq(anomalies, LAMBDA a : a.type # type)

\* the input's events are all well-formed
WellFormedInput ==
    /\ inputDoc.events.t = "list"
    /\ \A i \in 1..Len(inputDoc.events.l) : inputDoc.events.l[i] \in {Good, Quiet}

\* the input has no events: the key is missing or null, or the list is empty
NoEvents ==
    \/ inputDoc.events.t \in {"absent", "null"}
    \/ inputDoc.events.t = "list" /\ inputDoc.events.l = <<>>

\* the sum of field-values v[1] + ... + v[n]
Sum(v) ==
    LET s[k \in 0..Len(v)] == IF k = 0 THEN 0 ELSE s[k - 1] + v[k]
    IN  s[Len(v)]

Abs(x) == IF x < 0 THEN -x ELSE x

\* indices of the error-level events of the input
ErrorIndices ==
    {i \in 1..Len(inputDoc.events.l) :
        /\ inputDoc.events.l[i].level.t = "str"
        /\ inputDoc.events.l[i].level.s \in {"ERROR", "FATAL", "CRITICAL"}}

\* the signatures of the input's error-level events ("UNKNOWN" when missing)
ErrorSignatures ==
    {IF inputDoc.events.l[i].signature.t = "absent" THEN Str("UNKNOWN")
     ELSE inputDoc.events.l[i].signature : i \in ErrorIndices}

\* indices of the events that carry a non-empty string timestamp
Dated ==
    {i \in 1..Len(inputDoc.events.l) :
        /\ inputDoc.events.l[i].timestamp.t = "chars"
        /\ inputDoc.events.l[i].timestamp.c # <<>>}

\* the first 13 characters of the i-th event's timestamp
Prefix(i) ==
    LET c == inputDoc.events.l[i].timestamp.c
    IN  SubSeq(c, 1, IF Len(c) < 13 THEN Len(c) ELSE 13)

HourSuffix == <<":", "0", "0", ":", "0", "0">>

\* a < b in lexicographic order of code points
Precedes(a, b) ==
    \E k \in 1..(Min(Len(a), Len(b)) + 1) :
        /\ \A i \in 1..(k - 1) : a[i] = b[i]
        /\ \/ k > Len(a) /\ k <= Len(b)
           \/ k <= Len(a) /\ k <= Len(b) /\ Ord[a[k]] < Ord[b[k]]

\* C1: with baseline_comparison null or absent the detector (default
\* thresholds, writable output) completes, emits no ERROR_RATE_SPIKE and emits
\* every anomaly of the other two rules.
C1_NoBaselineIsNoComparison ==
    (/\ detOut.st # "idle"
     /\ metricsIn.baseline_comparison.t \in {"absent", "null"}
     /\ thresholdFile.t = "missing"
     /\ diskWritable)
    => /\ detOut.st = "returned"
       /\ OfType(detOut.value.anomalies, "ERROR_RATE_SPIKE") = <<>>
       /\ NotOfType(detOut.value.anomalies, "ERROR_RATE_SPIKE")
            = detect_new_error_signatures(metricsIn, DEFAULT_THRESHOLDS,
                                          detOut.value.detection_time.n)
              \o detect_latency_issues(metricsIn, DEFAULT_THRESHOLDS,
                                       detOut.value.detection_time.n)

\* the error_rate_spike record in force for the threshold file: the file's
\* record, else the defaults threshold 2.0, severity high, min_absolute_rate 0.01
SpikeParameters ==
    LET given == IF thresholdFile.t = "map" /\ thresholdFile.error_rate_spike.t = "map"
                 THEN thresholdFile.error_rate_spike
                 ELSE SpikeConfig(Absent, Absent, Absent)
    IN  [threshold |-> IF given.threshold.t = "num" THEN given.threshold.n ELSE 200,
         min_absolute_rate |-> IF given.min_absolute_rate.t = "num"
                               THEN given.min_absolute_rate.n ELSE 100,
         severity |-> IF given.severity.t = "absent" THEN Str("high") ELSE given.severity]

\* the rule's condition on the metrics document: parsed change >= threshold x 100
\* and error_rate >= min_absolute_rate
SpikeCondition ==
    LET str == metricsIn.baseline_comparison.error_rate_change
        change == IF str.t = "chars" THEN ParseChange(str.c)
                  ELSE [ok |-> TRUE, num |-> 0, den |-> 1]
        rate == IF metricsIn.error_rate.t = "num" THEN metricsIn.error_rate.n ELSE 0
    IN  /\ change.num >= SpikeParameters.threshold * change.den
        /\ rate >= SpikeParameters.min_absolute_rate

\* the list holds exactly one ERROR_RATE_SPIKE of the configured severity when
\* the condition holds and none otherwise
SpikeAsRuled(spikes) ==
    IF SpikeCondition
    THEN Len(spikes) = 1 /\ spikes[1].severity = SpikeParameters.severity
    ELSE spikes = <<>>

\* C2: for a metrics document with a baseline_comparison record, a detector
\* run emits exactly one ERROR_RATE_SPIKE of the configured severity (default
\* high) if the parsed change is >= threshold x 100 and error_rate >=
\* min_absolute_rate, and none otherwise.
C2_ErrorRateSpikeRule ==
    (detOut.st = "returned" /\ metricsIn.baseline_comparison.t = "map")
    => SpikeAsRuled(OfType(detOut.value.anomalies, "ERROR_RATE_SPIKE"))

\* error_rate 0.05 with change +250% under the default thresholds: one spike
\* of severity high was emitted
C2_Witness ==
    /\ detOut.st = "returned"
    /\ thresholdFile.t = "missing"
    /\ metricsIn.error_rate = Num(500)
    /\ metricsIn.baseline_comparison = TypicalComparison
    /\ Len(OfType(detOut.value.anomalies, "ERROR_RATE_SPIKE")) = 1
    /\ OfType(detOut.value.anomalies, "ERROR_RATE_SPIKE")[1].severity = Str("high")

\* C3: aggregating no events returns, without error, the all-zero summary
\* with empty collections and a null baseline_comparison, whatever the
\* baseline file.
C3_ZeroEvents ==
    aggOut.st # "idle" /\ NoEvents =>
        /\ aggOut.st = "returned"
        /\ aggOut.exit = 0
        /\ aggOut.value.total_events = 0
        /\ aggOut.value.error_count = 0
        /\ aggOut.value.error_rate = 0
        /\ aggOut.value.top_signatures = <<>>
        /\ aggOut.value.service_stats = <<>>
        /\ aggOut.value.hourly_trends = <<>>
        /\ aggOut.value.baseline_comparison = Null

\* an input without the events key was aggregated while a baseline file exists
C3_Witness ==
    /\ aggOut.st = "returned"
    /\ inputDoc.events.t = "absent"
    /\ baselineFile.t = "map"

\* C4: whatever fields of an event are missing, null or of the wrong type,
\* the aggregator returns a summary and never raises (output writable).
C4_MalformedEventsNeverRaise ==
    aggOut.st # "idle" /\ diskWritable => aggOut.st = "returned"

\* C5: for any threshold configuration the detector completes without error
\* (baseline_comparison not null, output writable).
C5_AnyConfigurationCompletes ==
    (/\ detOut.st # "idle"
     /\ diskWritable
     /\ metricsIn.baseline_comparison.t # "null")
    => detOut.st = "returned"

\* C6: a pipeline run that ends with zero parsed events, or with zero
\* anomalies and no failed skill, is reported as success with exit status 0.
C6_ZeroIsSuccess ==
    /\ (pc = "done" /\ inputDoc # Absent /\ NoEvents)
          => pipeline.exit = 0 /\ pipeline.value.status = "success"
    /\ (/\ pc = "done"
        /\ detOut.st = "returned"
        /\ detOut.value.anomalies = <<>>
        /\ pipeline.st = "returned")
          => pipeline.exit = 0 /\ pipeline.value.status = "success"

\* C7: when output/metrics.json cannot be written, the aggregator run on
\* well-formed events still returns its summary and the invocation succeeds.
C7_WriteFailureStillReturns ==
    (/\ aggOut.st # "idle"
     /\ ~diskWritable
     /\ WellFormedInput
     /\ ~NoEvents)
    => aggOut.st = "returned" /\ aggOut.exit = 0

\* the percentages of top_signatures, in tenths of a percent
Percentages ==
    Tuple([r \in 1..Len(aggOut.value.top_signatures) |->
              aggOut.value.top_signatures[r].percentage])

\* the counts of top_signatures
Counts ==
    Tuple([r \in 1..Len(aggOut.value.top_signatures) |->
              aggOut.value.top_signatures[r].count])

\* C8 as stated: the percentages sum to at most 100, with equality only when
\* at most 10 distinct error signatures exist.
C8_PercentagesSumTo100 ==
    aggOut.st = "returned" /\ ~NoEvents =>
        /\ Sum(Percentages) <= 1000
        /\ Sum(Percentages) = 1000 => Cardinality(ErrorSignatures) <= 10

\* C8 amended: each percentage is within 0.05 of its exact share
\* count / total error-level events x 100, so the percentages sum to at most
\* 100 + 0.05 x (number of entries); the exact shares of the entries sum to at
\* most 100 (their counts to at most the number of error-level events), with
\* equality exactly when at most 10 distinct error signatures exist.
C8_PercentagesWithinRounding ==
    aggOut.st = "returned" /\ ~NoEvents =>
        LET top == aggOut.value.top_signatures
            total == Cardinality(ErrorIndices)
        IN  /\ \A r \in 1..Len(top) :
                  2 * Abs(top[r].percentage * total - 1000 * top[r].count) <= total
            /\ 2 * Sum(Percentages) <= 2000 + Len(top)
            /\ Sum(Counts) <= total
            /\ Sum(Counts) = total <=> Cardinality(ErrorSignatures) <= 10

\* counts 1, 1, 4 and the like: the reported percentages sum to more than 100
C8_Witness ==
    /\ aggOut.st = "returned"
    /\ ~NoEvents
    /\ Sum(Percentages) > 1000

\* C9: for a non-empty event list, total_events is the number of events,
\* error_count the number of ERROR, FATAL or CRITICAL events (<= total_events)
\* and error_rate is error_count / total_events rounded to 4 decimals.
C9_ErrorRateConsistent ==
    aggOut.st = "returned" /\ ~NoEvents =>
        LET total == Len(inputDoc.events.l)
        IN  /\ aggOut.value.total_events = total
            /\ aggOut.value.error_count = Cardinality(ErrorIndices)
            /\ aggOut.value.error_count <= aggOut.value.total_events
            /\ 2 * Abs(aggOut.value.error_rate * total - 10000 * Cardinality(ErrorIndices))
                 <= total

\* a list with FATAL or CRITICAL events whose rate 1/3 or 2/3 needs rounding
C9_Witness ==
    /\ aggOut.st = "returned"
    /\ ~NoEvents
    /\ \E i \in ErrorIndices : inputDoc.events.l[i].level.s # "ERROR"
    /\ aggOut.value.error_rate * Len(inputDoc.events.l) # 10000 * aggOut.value.error_count

\* the hour buckets of the input: the distinct 13-character prefixes
Buckets == {Prefix(i) : i \in Dated}

\* C10: hourly_trends has min(24, number of buckets) entries in strictly
\* ascending order of hour key, the earliest buckets; a bucket holds exactly
\* the events whose timestamps share its first 13 characters, at least one,
\* and no more errors than events.
C10_HourlyTrends ==
    aggOut.st = "returned" /\ ~NoEvents =>
        LET trends == aggOut.value.hourly_trends
            reported == {trends[r].hour : r \in 1..Len(trends)}
        IN  /\ Len(trends) = Min(24, Cardinality(Buckets))
            /\ \A r \in 1..(Len(trends) - 1) : Precedes(trends[r].hour, trends[r + 1].hour)
            /\ \A b \in Buckets :
                  \/ b \o HourSuffix \in reported
                  \/ \A h \in reported : Precedes(h, b \o HourSuffix)
            /\ \A r \in 1..Len(trends) :
                  \E b \in Buckets :
                     /\ trends[r].hour = b \o HourSuffix
                     /\ trends[r].total_events = Cardinality({i \in Dated : Prefix(i) = b})
                     /\ trends[r].total_events >= 1
                     /\ trends[r].error_count <= trends[r].total_events

\* more than 24 distinct hours were aggregated and 24 are reported
C10_Witness ==
    /\ aggOut.st = "returned"
    /\ ~NoEvents
    /\ Cardinality(Buckets) > 24
    /\ Len(aggOut.value.hourly_trends) = 24

\* c has the shape YYYY-MM-DDTHH:MM:SS of an ISO-8601 timestamp
IsoShape(c) ==
    /\ Len(c) >= 19
    /\ \A k \in 1..19 :
          IF k \in {5, 8} THEN c[k] = "-"
          ELSE IF k = 11 THEN c[k] = "T"
          ELSE IF k \in {14, 17} THEN c[k] = ":"
          ELSE c[k] \in {"0", "1", "2", "3", "4", "5", "6", "7", "8", "9"}

\* indices of the events whose timestamp is a well-formed ISO-8601 string
WellTimed ==
    {i \in 1..Len(inputDoc.events.l) :
        /\ inputDoc.events.l[i].timestamp.t = "chars"
        /\ IsoShape(inputDoc.events.l[i].timestamp.c)}

\* C11: an event whose timestamp is missing or malformed creates no hour
\* bucket and is counted in no hourly_trends entry (every entry counts exactly
\* the well-timed events of its hour, at least one), while total_events and
\* service_stats still count it.
C11_MalformedTimestampsSkipped ==
    aggOut.st = "returned" /\ ~NoEvents =>
        LET trends == aggOut.value.hourly_trends
            stats == aggOut.value.service_stats
        IN  /\ \A r \in 1..Len(trends) :
                  /\ trends[r].total_events
                       = Cardinality({i \in WellTimed : Prefix(i) \o HourSuffix = trends[r].hour})
                  /\ trends[r].total_events >= 1
            /\ aggOut.value.total_events = Len(inputDoc.events.l)
            /\ Sum(Tuple([r \in 1..Len(stats) |-> stats[r].total])) = Len(inputDoc.events.l)

\* the anomalies of one type the detector run emitted
Emitted(type) == OfType(detOut.value.anomalies, type)

\* the record the threshold file gives a rule, or the record without
\* parameters when the file gives none
ConfiguredRecord(key, none) ==
    IF thresholdFile.t = "map" /\ thresholdFile[key].t = "map" THEN thresholdFile[key]
    ELSE none

\* a parameter of a record, or its default
Parameter(value, default) == IF value.t = "absent" THEN default ELSE value

\* the entries of top_signatures that qualify: count >= min_occurrences
\* (default 5) and signature not GENERIC_ERROR
QualifyingSignatures ==
    LET config == ConfiguredRecord("new_error_signature", SignatureConfig(Absent, Absent))
        min_occurrences == Parameter(config.min_occurrences, Num(5)).n
        entries == IF metricsIn.top_signatures.t = "list" THEN metricsIn.top_signatures.l
                   ELSE <<>>
    IN  SelectSeq(entries,
                  LAMBDA sig : /\ Parameter(sig.count, Num(0)).n >= min_occurrences
                               /\ sig.signature # Str("GENERIC_ERROR"))

\* C12: the detector emits exactly one NEW_ERROR_SIGNATURE anomaly for each
\* qualifying entry of top_signatures, in list order, and none for any other
\* entry; each has confidence min(0.90, 0.6 + count/100) and the configured
\* severity (default medium).
C12_NewSignatureRule ==
    detOut.st = "returned"
    => LET emitted == Emitted("NEW_ERROR_SIGNATURE")
           config == ConfiguredRecord("new_error_signature", SignatureConfig(Absent, Absent))
       IN  /\ Len(emitted) = Len(QualifyingSignatures)
           /\ \A i \in 1..Len(emitted) :
                 LET sig == QualifyingSignatures[i]
                     count == Parameter(sig.count, Num(0)).n
                 IN  /\ emitted[i].subject = Parameter(sig.signature, Str(""))
                     /\ emitted[i].value = Num(count)
                     /\ 100 * emitted[i].confidence.num
                          = Min(90, 60 + count) * emitted[i].confidence.den
                     /\ emitted[i].severity = Parameter(config.severity, Str("medium"))

\* three entries, one at the default boundary count 5, one GENERIC_ERROR with
\* count 9 and one below the boundary: exactly the first was reported
C12_Witness ==
    /\ detOut.st = "returned"
    /\ metricsIn.top_signatures.t = "list"
    /\ Len(metricsIn.top_signatures.l) = 3
    /\ metricsIn.top_signatures.l[2].signature = Str("GENERIC_ERROR")
    /\ Len(Emitted("NEW_ERROR_SIGNATURE")) = 1
    /\ Emitted("NEW_ERROR_SIGNATURE")[1].value = Num(5)
    /\ Emitted("NEW_ERROR_SIGNATURE")[1].confidence = [num |-> 65, den |-> 100]

\* threshold_ms in force: the file's, else the default 3000
ThresholdMs ==
    Parameter(ConfiguredRecord("latency_spike", LatencyConfig(Absent, Absent)).threshold_ms,
              Num(3000)).n

\* the services of service_stats whose p95_latency_ms reaches threshold_ms
QualifyingServices ==
    LET services == IF metricsIn.service_stats.t = "list" THEN metricsIn.service_stats.l
                    ELSE <<>>
    IN  SelectSeq(services,
                  LAMBDA stats : Parameter(stats.p95_latency_ms, Num(0)).n >= ThresholdMs)

\* num / den = min(0.85, 0.5 + p95 / threshold_ms / 2), for threshold_ms # 0
IsLatencyConfidence(num, den, p95) ==
    LET capped == IF ThresholdMs > 0 THEN 100 * (ThresholdMs + p95) > 170 * ThresholdMs
                  ELSE 100 * (ThresholdMs + p95) < 170 * ThresholdMs
    IN  IF capped THEN 100 * num = 85 * den
        ELSE num * 2 * ThresholdMs = (ThresholdMs + p95) * den

\* C13: the detector emits exactly one LATENCY_SPIKE anomaly for each service
\* whose p95_latency_ms is >= threshold_ms (default 3000) and none for any
\* other service, with confidence min(0.85, 0.5 + p95/threshold_ms/2) and the
\* configured severity (default medium).
C13_LatencyRule ==
    detOut.st = "returned"
    => LET emitted == Emitted("LATENCY_SPIKE")
           config == ConfiguredRecord("latency_spike", LatencyConfig(Absent, Absent))
       IN  /\ Len(emitted) = Len(QualifyingServices)
           /\ \A i \in 1..Len(emitted) :
                 LET p95 == Parameter(QualifyingServices[i].p95_latency_ms, Num(0)).n
                 IN  /\ emitted[i].subject = QualifyingServices[i].service
                     /\ emitted[i].value = Num(p95)
                     /\ IsLatencyConfidence(emitted[i].confidence.num,
                                            emitted[i].confidence.den, p95)
                     /\ emitted[i].severity = Parameter(config.severity, Str("medium"))

\* under the default thresholds the services with p95 4000, 2999 and 3000
\* gave two anomalies, the one for p95 = 4000 with confidence 0.85
C13_Witness ==
    /\ detOut.st = "returned"
    /\ ThresholdMs = 3000
    /\ metricsIn.service_stats.t = "list"
    /\ Len(metricsIn.service_stats.l) = 3
    /\ Len(Emitted("LATENCY_SPIKE")) = 2
    /\ Emitted("LATENCY_SPIKE")[1].value = Num(4000)
    /\ 100 * Emitted("LATENCY_SPIKE")[1].confidence.num
          = 85 * Emitted("LATENCY_SPIKE")[1].confidence.den
    /\ Emitted("LATENCY_SPIKE")[2].value = Num(3000)

\* the cap of a type's confidence, in 1/100
ConfidenceCap(type) ==
    IF type = "ERROR_RATE_SPIKE" THEN 95
    ELSE IF type = "NEW_ERROR_SIGNATURE" THEN 90
    ELSE 85

\* C14: every anomaly the detector emits has a confidence between 0 and its
\* type's cap (0.95, 0.90, 0.85).
C14_ConfidenceInRange ==
    detOut.st = "returned" =>
        \A i \in 1..Len(detOut.value.anomalies) :
            LET a == detOut.value.anomalies[i]
            IN  /\ a.confidence.den > 0
                /\ a.confidence.num >= 0
                /\ 100 * a.confidence.num <= ConfidenceCap(a.type) * a.confidence.den

\* the compiled-in record of a top-level key: error_rate_spike {2.0, high,
\* 0.01}, error_count_spike {3.0, high, 10}, new_error_signature {5, medium},
\* latency_spike {3000, medium}
CompiledDefault(key) ==
    IF key = "error_rate_spike"
    THEN [t |-> "map", threshold |-> Num(200), severity |-> Str("high"),
          min_absolute_rate |-> Num(100)]
    ELSE IF key = "error_count_spike"
    THEN [t |-> "map", threshold |-> Num(300), severity |-> Str("high"),
          min_absolute_count |-> Num(10)]
    ELSE IF key = "new_error_signature"
    THEN [t |-> "map", min_occurrences |-> Num(5), severity |-> Str("medium")]
    ELSE [t |-> "map", threshold_ms |-> Num(3000), severity |-> Str("medium")]

TopLevelKeys ==
    {"error_rate_spike", "error_count_spike", "new_error_signature", "latency_spike"}

\* C15: the threshold set a detector run loads has, for every top-level key
\* absent from the file, exactly the compiled-in default record and, for every
\* key present in the file, exactly the file's record (not deep-merged); a
\* missing file yields exactly the compiled-in defaults.
C15_ThresholdMerge ==
    (detOut.st # "idle" /\ thresholdFile.t \in {"map", "missing"}) =>
        LET thresholds == load_thresholds(thresholdFile)
        IN  /\ DOMAIN thresholds = TopLevelKeys
            /\ \A key \in TopLevelKeys :
                  thresholds[key] =
                     IF thresholdFile.t = "map" /\ thresholdFile[key].t # "absent"
                     THEN thresholdFile[key]
                     ELSE CompiledDefault(key)

\* a run with a file that supplies only latency_spike, and of it only
\* threshold_ms = 4000: the other keys are at their defaults, the latency record
\* is the file's (no severity), and the service at 3000 ms is not reported
C15_Witness ==
    /\ detOut.st = "returned"
    /\ thresholdFile.t = "map"
    /\ thresholdFile.error_rate_spike.t = "absent"
    /\ thresholdFile.new_error_signature.t = "absent"
    /\ thresholdFile.latency_spike = LatencyConfig(Num(4000), Absent)
    /\ load_thresholds(thresholdFile).error_rate_spike = CompiledDefault("error_rate_spike")
    /\ load_thresholds(thresholdFile).latency_spike.severity = Absent
    /\ metricsIn.service_stats.t = "list"
    /\ Len(metricsIn.service_stats.l) = 3
    /\ Len(Emitted("LATENCY_SPIKE")) = 1

\* the i-th event's service ("unknown" when missing)
ServiceOf(i) == Parameter(inputDoc.events.l[i].service, Str("unknown"))

\* the i-th event's recorded latency: latency_ms when present and > 0, else 0
RecordedLatency(i) ==
    LET metadata == inputDoc.events.l[i].metadata
    IN  IF metadata.t = "map" /\ metadata.latency_ms.t = "num" /\ metadata.latency_ms.n > 0
        THEN metadata.latency_ms.n
        ELSE 0

\* indices of the events of a service that recorded a latency
Recorded(service) ==
    {i \in 1..Len(inputDoc.events.l) : ServiceOf(i) = service /\ RecordedLatency(i) > 0}

\* C17: for a service with at least 3 recorded latencies the percentiles
\* satisfy p50 <= p95 <= p99 and each is one of the service's recorded
\* latencies.
C17_PercentilesOrdered ==
    aggOut.st = "returned" /\ ~NoEvents =>
        \A r \in 1..Len(aggOut.value.service_stats) :
            LET stats == aggOut.value.service_stats[r]
                latencies == {RecordedLatency(i) : i \in Recorded(stats.service)}
            IN  Cardinality(Recorded(stats.service)) >= 3 =>
                   /\ stats.p50_latency_ms <= stats.p95_latency_ms
                   /\ stats.p95_latency_ms <= stats.p99_latency_ms
                   /\ stats.p50_latency_ms \in latencies
                   /\ stats.p95_latency_ms \in latencies
                   /\ stats.p99_latency_ms \in latencies

\* a service recorded three distinct latencies, the largest first, and its
\* median is below its p95
C17_Witness ==
    /\ aggOut.st = "returned"
    /\ ~NoEvents
    /\ \E r \in 1..Len(aggOut.value.service_stats) :
          LET stats == aggOut.value.service_stats[r]
              first == CHOOSE i \in Recorded(stats.service) :
                          \A j \in Recorded(stats.service) : i <= j
          IN  /\ Cardinality(Recorded(stats.service)) >= 3
              /\ \A j \in Recorded(stats.service) : RecordedLatency(j) <= RecordedLatency(first)
              /\ stats.p50_latency_ms < stats.p95_latency_ms

\* the signature of the i-th event ("UNKNOWN" when missing)
SignatureOf(i) == Parameter(inputDoc.events.l[i].signature, Str("UNKNOWN"))

\* the error-level events that carry a signature
Carrying(signature) == {i \in ErrorIndices : SignatureOf(i) = signature}

\* the first error-level event that carries a signature
FirstCarrying(signature) ==
    CHOOSE i \in Carrying(signature) : \A j \in Carrying(signature) : i <= j

\* signature a ranks before signature b: more occurrences, or as many and
\* seen first
RanksBefore(a, b) ==
    \/ Cardinality(Carrying(a)) > Cardinality(Carrying(b))
    \/ /\ Cardinality(Carrying(a)) = Cardinality(Carrying(b))
       /\ FirstCarrying(a) < FirstCarrying(b)

\* a message cut to at most 200 characters ("" when missing)
CutTo200(message) ==
    IF message.t = "absent" THEN Chars(<<>>)
    ELSE IF message.t = "chars" /\ Len(message.c) > 200
    THEN Chars([k \in 1..200 |-> message.c[k]])
    ELSE message

\* C18: top_signatures is sorted by count descending with ties in first-seen
\* order, has at most 10 entries (the 10 highest under that order), no
\* signature twice, and each example_message is the message of the first
\* error-level event with that signature, cut to at most 200 characters.
C18_TopSignaturesOrder ==
    aggOut.st = "returned" /\ ~NoEvents =>
        LET top == aggOut.value.top_signatures
            reported == {top[r].signature : r \in 1..Len(top)}
        IN  /\ Len(top) = Min(10, Cardinality(ErrorSignatures))
            /\ reported \subseteq ErrorSignatures
            /\ \A r \in 1..Len(top) :
                  /\ top[r].count = Cardinality(Carrying(top[r].signature))
                  /\ top[r].example_message
                       = CutTo200(inputDoc.events.l[FirstCarrying(top[r].signature)].message)
                  /\ \A q \in (r + 1)..Len(top) :
                        RanksBefore(top[r].signature, top[q].signature)
                  /\ \A other \in ErrorSignatures \ reported :
                        RanksBefore(top[r].signature, other)

\* two signatures with equal counts, the second-listed seen first in an
\* earlier non-error event only, and a 201-character first message cut to 200
C18_Witness ==
    /\ aggOut.st = "returned"
    /\ ~NoEvents
    /\ Len(aggOut.value.top_signatures) = 2
    /\ aggOut.value.top_signatures[1].count = aggOut.value.top_signatures[2].count
    /\ aggOut.value.top_signatures[1].signature = Str("OOM")
    /\ Len(aggOut.value.top_signatures[1].example_message.c) = 200
    /\ inputDoc.events.l[1].signature = Str("TIMEOUT")
    /\ inputDoc.events.l[1].level = Str("INFO")

\* what a skill read is not valid JSON, is not a mapping, or holds a
\* non-mapping where a record is expected (the metrics, an event)
MalformedInput(stdin) ==
    \/ stdin \in NotADocument
    \/ /\ "events" \in DOMAIN stdin
       /\ \E i \in 1..Len(EventsOf(stdin)) : ~IsMapping(EventsOf(stdin)[i])
    \/ /\ "metrics" \in DOMAIN stdin
       /\ stdin.metrics \in {Null, JList, Num(1)}

\* both documents under output/ are as they were
OutputUntouched == metricsFile' = metricsFile /\ anomaliesFile' = anomaliesFile

\* C19: a skill invoked with a malformed or unparseable input document
\* reports an error, exits with a non-zero status and leaves the files under
\* output/ exactly as they were before the invocation.
C19_MalformedInputWritesNothing ==
    [][/\ (aggVars' # aggVars /\ MalformedInput(inputDoc')) =>
              aggOut'.st = "raised" /\ aggOut'.exit # 0 /\ OutputUntouched
       /\ (detVars' # detVars /\ MalformedInput(metricsIn')) =>
              detOut'.st = "raised" /\ detOut'.exit # 0 /\ OutputUntouched]_vars

\* both skills were last invoked with malformed input while both output
\* documents existed from earlier invocations
C19_Witness ==
    /\ MalformedInput(inputDoc)
    /\ aggOut.st = "raised"
    /\ metricsFile.t = "file"
    /\ MalformedInput(metricsIn)
    /\ detOut.st = "raised"
    /\ anomaliesFile.t = "file"

\* C20: after any sequence of aggregator runs in which writing succeeds,
\* output/metrics.json equals the summary returned by the most recent run,
\* a run over zero events included.
C20_MetricsFileIsLatestSummary ==
    diskWritable /\ aggOut.st = "returned" =>
        metricsFile = [t |-> "file", doc |-> aggOut.value]

\* C21: concurrent invocations share no mutable state: whatever the
\* interleaving, an invocation that returns leaves as its persisted document
\* what it would leave when run alone, the result it returned.
C21_NoSharedState ==
    [][\A p \in Procs :
          procs[p].pc = "return" /\ procs'[p].pc = "done" =>
              OutputOf(procs[p].skill) = [t |-> "file", doc |-> procs[p].out.value]]_vars

\* the skills in the order of run_pipeline
Skills ==
    <<"fetch_logs", "parse_logs", "aggregate_logs", "detect_anomalies", "high_hypothesis",
      "generate_summary">>

IsPrefix(a, b) == Len(a) <= Len(b) /\ a = SubSeq(b, 1, Len(a))

\* run_skill was called for the skill
Started(skill) == \E i \in 1..Len(invoked) : invoked[i] = skill

\* the skill run_skill was last called for
LastStarted == invoked[Len(invoked)]

\* C22: run_pipeline invokes fetch, parse, aggregate, detect, hypothesize,
\* summarize in that order, each after the previous one exited with status 0
\* and on the previous outputs; a non-zero exit raises PipelineError, no later
\* skill is invoked and main returns 1; the hypothesis skill is invoked
\* exactly when the anomaly list is non-empty.
C22_PipelineOrder ==
    /\ \/ IsPrefix(invoked, Skills)
       \/ IsPrefix(invoked, SelectSeq(Skills, LAMBDA skill : skill # "high_hypothesis"))
    /\ Started("parse_logs") => logs > 0
    /\ Started("aggregate_logs") =>
          inputDoc.events.t = "list" /\ inputDoc.events.l \in ParsedLists(logs) \ {<<>>}
    /\ Started("detect_anomalies") =>
          aggOut.st = "returned" /\ aggOut.exit = 0 /\ metricsIn = AsMetrics(aggOut.value)
    /\ Started("high_hypothesis") \/ Started("generate_summary") =>
          detOut.st = "returned" /\ detOut.exit = 0
    /\ Started("high_hypothesis") => detOut.value.anomalies # <<>>
    /\ Started("generate_summary") /\ ~Started("high_hypothesis") =>
          detOut.value.anomalies = <<>>
    /\ aggOut.st = "raised" =>
          pc = "done" /\ pipeline = Failed /\ LastStarted = "aggregate_logs"
    /\ detOut.st = "raised" =>
          pc = "done" /\ pipeline = Failed /\ LastStarted = "detect_anomalies"
    /\ pipeline = Failed => pc = "done" /\ pipeline.exit = 1
    /\ pc = "done" /\ Started("generate_summary") /\ pipeline # Failed =>
          pipeline = Succeeded

\* a run through all six skills that found anomalies and succeeded
C22_Witness ==
    /\ pc = "done"
    /\ invoked = Skills
    /\ pipeline = Succeeded
    /\ detOut.value.anomalies # <<>>
    /\ metricsIn = AsMetrics(aggOut.value)

\* the string renders the percentage change (current - base) / base for
\* current - base = num / k and base = den / k: "0%" when the base is 0,
\* otherwise a number with one decimal within 0.05 of the change, then "%",
\* with a leading "+" exactly for a positive change
RendersChange(str, num, den) ==
    IF den <= 0 THEN str = <<"0", "%">>
    ELSE LET shown == ParseFloat(Remove(Remove(str, "%"), "+"))
         IN  /\ str[Len(str)] = "%"
             /\ str[Len(str) - 2] = "."
             /\ Len(Remove(str, "%")) = Len(str) - 1
             /\ (Head(str) = "+") = (num > 0)
             /\ Len(Remove(str, "+")) >= Len(str) - 1
             /\ shown.ok
             /\ (shown.num < 0 => num < 0)
             /\ Abs(shown.num * den - 100 * num * shown.den) * 20 <= den * shown.den

\* C23 as stated: baseline_comparison is null exactly when no readable
\* baseline snapshot exists.
C23_NullExactlyWithoutBaseline ==
    aggOut.st = "returned" =>
        (aggOut.value.baseline_comparison = Null <=> baselineFile.t # "map")

\* C23: for a run over at least one event, baseline_comparison is null
\* exactly when no readable baseline snapshot exists; otherwise
\* error_rate_change and volume_change render the percentage change from the
\* baseline value to the current value ("0%" when the baseline value is 0),
\* and the record carries the baseline's error_rate and total_events.
C23_BaselineComparison ==
    aggOut.st = "returned" /\ ~NoEvents =>
        LET comparison == aggOut.value.baseline_comparison
            total == Len(inputDoc.events.l)
        IN  /\ comparison = Null <=> baselineFile.t # "map"
            /\ baselineFile.t = "map" =>
                  /\ comparison.baseline_error_rate = Num(baselineFile.error_rate)
                  /\ comparison.baseline_total_events = Num(baselineFile.total_events)
                  /\ RendersChange(comparison.error_rate_change.c,
                                   Cardinality(ErrorIndices) * 10000
                                     - baselineFile.error_rate * total,
                                   baselineFile.error_rate * total)
                  /\ RendersChange(comparison.volume_change.c,
                                   total - baselineFile.total_events,
                                   baselineFile.total_events)

\* three events without errors against a baseline of 2 events at 2% errors:
\* the error rate fell and the volume rose
C23_Witness ==
    /\ aggOut.st = "returned"
    /\ ~NoEvents
    /\ baselineFile.t = "map"
    /\ aggOut.value.baseline_comparison.t = "map"
    /\ Head(aggOut.value.baseline_comparison.error_rate_change.c) = "-"
    /\ Head(aggOut.value.baseline_comparison.volume_change.c) = "+"

\* C24: all anomalies in the list returned by one detect invocation on a
\* metrics document produced by the aggregator have pairwise distinct ids.
C24_AnomalyIdsUnique ==
    detOut.st = "returned" =>
        \A i, j \in 1..Len(detOut.value.anomalies) :
            detOut.value.anomalies[i].id = detOut.value.anomalies[j].id => i = j

\* the value at 0-based index k of the ascending list of the latencies that
\* the events `among` recorded: at most k of them lie below it and more than
\* k do not lie above it
AtIndex(among, k) ==
    CHOOSE x \in {RecordedLatency(i) : i \in among} :
        /\ Cardinality({i \in among : RecordedLatency(i) < x}) <= k
        /\ Cardinality({i \in among : RecordedLatency(i) <= x}) > k

\* C25: with L the ascending list of a service's latency_ms values that are
\* present and > 0 and n its length, p50, p95 and p99 are L[floor(n x 0.50)],
\* L[floor(n x 0.95)] and L[floor(n x 0.99)], the indices lie in 0..n-1, all
\* three are 0 when n = 0, and events without such a latency still count in
\* the service's total.
C25_NearestRankPercentiles ==
    aggOut.st = "returned" /\ ~NoEvents =>
        \A r \in 1..Len(aggOut.value.service_stats) :
            LET stats == aggOut.value.service_stats[r]
                among == Recorded(stats.service)
                n == Cardinality(among)
            IN  /\ stats.total
                     = Cardinality({i \in 1..Len(inputDoc.events.l) : ServiceOf(i) = stats.service})
                /\ n = 0 =>
                      /\ stats.p50_latency_ms = 0
                      /\ stats.p95_latency_ms = 0
                      /\ stats.p99_latency_ms = 0
                /\ n > 0 =>
                      /\ {(n * 50) \div 100, (n * 95) \div 100, (n * 99) \div 100} \subseteq 0..(n - 1)
                      /\ stats.p50_latency_ms = AtIndex(among, (n * 50) \div 100)
                      /\ stats.p95_latency_ms = AtIndex(among, (n * 95) \div 100)
                      /\ stats.p99_latency_ms = AtIndex(among, (n * 99) \div 100)

\* a service with two recorded latencies, the larger first, and a third event
\* whose latency is 0: the median is the larger one
C25_Witness ==
    /\ aggOut.st = "returned"
    /\ ~NoEvents
    /\ \E r \in 1..Len(aggOut.value.service_stats) :
          LET stats == aggOut.value.service_stats[r]
          IN  /\ Cardinality(Recorded(stats.service)) = 2
              /\ stats.total = 3
              /\ stats.p50_latency_ms = 200
              /\ \E i, j \in Recorded(stats.service) :
                    i < j /\ RecordedLatency(i) = 200 /\ RecordedLatency(j) = 100

\* C26: only error-level events contribute to signature counts: an entry's
\* count is the number of error-level events with its signature, the counts
\* of all distinct signatures sum to error_count (those of the reported
\* entries fall short of it only when more than 10 signatures exist), each
\* percentage is the entry's share of error_count, not of the reported
\* counts, and a list without error-level events yields no entries.
C26_OnlyErrorsCounted ==
    aggOut.st = "returned" /\ ~NoEvents =>
        LET top == aggOut.value.top_signatures
            error_count == aggOut.value.error_count
        IN  /\ \A r \in 1..Len(top) :
                  /\ top[r].signature \in ErrorSignatures
                  /\ top[r].count = Cardinality(Carrying(top[r].signature))
                  /\ top[r].count >= 1
                  /\ 2 * Abs(top[r].percentage * error_count - 1000 * top[r].count)
                       <= error_count
            /\ Cardinality(UNION {Carrying(signature) : signature \in ErrorSignatures})
                 = error_count
            /\ \A a, b \in ErrorSignatures : a # b => Carrying(a) \cap Carrying(b) = {}
            /\ Cardinality(ErrorSignatures) <= 10 => Sum(Counts) = error_count
            /\ Cardinality(ErrorSignatures) > 10 => Sum(Counts) < error_count
            /\ ErrorIndices = {} => top = <<>>

\* more than 10 signatures, the first with several events: its percentage is
\* its share of all error-level events, which differs from its share of the
\* reported ones
C26_Witness ==
    /\ aggOut.st = "returned"
    /\ ~NoEvents
    /\ Cardinality(ErrorSignatures) > 10
    /\ aggOut.value.top_signatures[1].count = 3
    /\ Sum(Counts) = 12
    /\ aggOut.value.error_count = 14
    /\ aggOut.value.top_signatures[1].percentage = 214

\* C27: the result is the error-rate rule's anomalies, then one
\* NEW_ERROR_SIGNATURE per qualifying entry in top_signatures order, then one
\* LATENCY_SPIKE per qualifying service in service_stats order, nothing
\* suppressed or merged whatever the other rules emit, and total_anomalies is
\* the length of the list.
C27_RulesConcatenated ==
    detOut.st = "returned" =>
        LET anomalies == detOut.value.anomalies
            spikes == Len(Emitted("ERROR_RATE_SPIKE"))
            signatures == Len(QualifyingSignatures)
            services == Len(QualifyingServices)
        IN  /\ detOut.value.total_anomalies = Len(anomalies)
            /\ spikes <= 1
            /\ Len(anomalies) = spikes + signatures + services
            /\ \A i \in 1..spikes : anomalies[i].type = "ERROR_RATE_SPIKE"
            /\ \A i \in 1..signatures :
                  /\ anomalies[spikes + i].type = "NEW_ERROR_SIGNATURE"
                  /\ anomalies[spikes + i].subject
                       = Parameter(QualifyingSignatures[i].signature, Str(""))
            /\ \A i \in 1..services :
                  /\ anomalies[spikes + signatures + i].type = "LATENCY_SPIKE"
                  /\ anomalies[spikes + signatures + i].subject = QualifyingServices[i].service

\* a result that holds a spike, then signature anomalies, then latency
\* anomalies
C27_Witness ==
    /\ detOut.st = "returned"
    /\ Len(Emitted("ERROR_RATE_SPIKE")) = 1
    /\ Len(Emitted("NEW_ERROR_SIGNATURE")) >= 1
    /\ Len(Emitted("LATENCY_SPIKE")) >= 2
    /\ detOut.value.total_anomalies >= 4

\* C28: the per-service statistics partition the events: every event is
\* counted in exactly one service (its service field, or unknown when
\* absent), so the totals sum to total_events and the errors to error_count;
\* each service has total >= 1, errors <= total and error_rate = errors /
\* total; and no service record holds the raw latencies list.
C28_ServicesPartitionEvents ==
    aggOut.st = "returned" /\ ~NoEvents =>
        LET stats == aggOut.value.service_stats
            events == 1..Len(inputDoc.events.l)
        IN  /\ {stats[r].service : r \in 1..Len(stats)} = {ServiceOf(i) : i \in events}
            /\ \A r, q \in 1..Len(stats) : stats[r].service = stats[q].service => r = q
            /\ \A r \in 1..Len(stats) :
                  /\ stats[r].total
                       = Cardinality({i \in events : ServiceOf(i) = stats[r].service})
                  /\ stats[r].errors
                       = Cardinality({i \in ErrorIndices : ServiceOf(i) = stats[r].service})
                  /\ stats[r].total >= 1
                  /\ stats[r].errors <= stats[r].total
                  /\ stats[r].error_rate.den > 0
                  /\ stats[r].error_rate.num * stats[r].total
                       = stats[r].errors * stats[r].error_rate.den
                  /\ "latencies" \notin DOMAIN stats[r]
            /\ Sum(Tuple([r \in 1..Len(stats) |-> stats[r].total])) = aggOut.value.total_events
            /\ Sum(Tuple([r \in 1..Len(stats) |-> stats[r].errors])) = aggOut.value.error_count

\* three events of three services, one of them without a service field and
\* filed under unknown, and not all of them errors
C28_Witness ==
    /\ aggOut.st = "returned"
    /\ ~NoEvents
    /\ Len(aggOut.value.service_stats) = 3
    /\ \E i \in 1..Len(inputDoc.events.l) : inputDoc.events.l[i].service = Absent
    /\ \E r \in 1..3 : /\ aggOut.value.service_stats[r].service = Str("unknown")
                       /\ aggOut.value.service_stats[r].errors = 1
    /\ aggOut.value.error_count < aggOut.value.total_events

\* C30: when the baseline snapshot's error_rate is not positive the
\* aggregator reports an error_rate_change of 0, and for any positive
\* error_rate_spike threshold the detector run on its summary emits no
\* ERROR_RATE_SPIKE anomaly, however high the current error rate is.
C30_NoSpikeFromZeroBaseline ==
    (/\ detOut.st = "returned"
     /\ baselineFile.t = "map"
     /\ baselineFile.error_rate <= 0
     /\ SpikeParameters.threshold > 0) =>
        /\ aggOut.value.baseline_comparison.error_rate_change = Chars(<<"0", "%">>)
        /\ metricsIn.baseline_comparison.error_rate_change = Chars(<<"0", "%">>)
        /\ Emitted("ERROR_RATE_SPIKE") = <<>>

\* every event was an error, the baseline error_rate is 0 and the default
\* threshold is in force: the detector returned no spike
C30_Witness ==
    /\ detOut.st = "returned"
    /\ baselineFile.t = "map"
    /\ baselineFile.error_rate = 0
    /\ thresholdFile = NoFile
    /\ aggOut.value.error_rate = 10000
    /\ metricsIn.error_rate = Num(10000)
    /\ Emitted("ERROR_RATE_SPIKE") = <<>>

\* C29: the livelogs_insights orchestrator always runs to completion: it
\* attempts its eight steps in order (the hypothesis skill only when there
\* are anomalies), a failed step leaves its default and the later steps are
\* still attempted, and the run ends by writing its four files under
\* output/insights and returning its results.
C29_InsightsAlwaysCompletes ==
    insights.pc = "done" =>
        /\ insights.out.st = "returned"
        /\ insights.out.exit = 0
        /\ insights.written = InsightFiles
        /\ \/ insights.attempted = InsightSteps
           \/ /\ insights.attempted
                   = SelectSeq(InsightSteps, LAMBDA skill : skill # "high_hypothesis")
              /\ insights.anomalies = 0
        /\ insights.attempted = InsightSteps => insights.anomalies > 0
        /\ \A k \in 1..8 : insights.results[ResultKeys[k]] \in {"produced", "default"}

====
